---- MODULE Spec2Model ----
(***************************************************************************)
(* Model of the Dilux database backup orchestrator: the scheduler timer    *)
(* (dynamic_scheduler), the queue-triggered worker (backup_processor),     *)
(* the retention timer (cleanup_old_backups), the delete endpoints, the     *)
(* policy and database endpoints, the history listings and the table       *)
(* entity conversions, over the catalog, history table, blob container     *)
(* and backup queue.                                                       *)
(*                                                                         *)
(* Time is counted in whole seconds since 2023-01-01 00:00:00 UTC, which   *)
(* was a Sunday.  All datetimes in the model are naive UTC, so             *)
(* ensure_naive_utc is the identity on them.                               *)
(***************************************************************************)
EXTENDS Integers, Sequences, FiniteSets, TLC

VARIABLES
    clock,      \* datetime.utcnow(), in seconds
    lastTick,   \* time of the last dynamic_scheduler run, -1 before the first
    databases,  \* table databaseconfigs: id -> DatabaseConfig
    engines,    \* table engines: id -> Engine
    policies,   \* table backuppolicies: id -> BackupPolicy (absent ids not in DOMAIN)
    history,    \* table backuphistory: set of BackupResult entities
    blobs,      \* blob container: set of blob names
    queue,      \* queue backup-jobs: set of messages
    poison,     \* queue backup-jobs-poison: messages the host gave up on
    workers,    \* worker -> state of its backup_processor invocation
    sent,       \* log of every BackupJob passed to send_backup_job
    nextId,     \* source of fresh BackupJob ids (uuid4)
    retention,  \* cleanup_old_backups: what the pass read, decided and deleted
    pred,       \* inputs and result of one evaluation of a pure function
    api,        \* HTTP API: the request in progress and the last response
    audit,      \* table auditlogs: the entries the catalog endpoints wrote
    inflight    \* engine requests that have read the table and not yet written

vars == <<clock, lastTick, databases, engines, policies, history, blobs,
          queue, poison, workers, sent, nextId, retention, pred,
          api, audit, inflight>>

----------------------------------------------------------------------------
(* Bounds of the model *)

MaxTicks == 5          \* scheduler ticks after the first one
MaxJobs == 2           \* messages ever placed on the queue
maxDequeueCount == 2   \* deliveries before the host moves a message to poison

----------------------------------------------------------------------------
(* Calendar arithmetic of datetime *)

None == "None"            \* None in a text field
NoTime == -1              \* None in a datetime field
NoRow == [id |-> None]    \* None returned by a lookup
\* no retention pass has run: nothing read, nothing deleted
NoPass == [ran |-> FALSE, deleted |-> {}, database_id |-> None, pending |-> {},
           seen |-> {}]
\* no API request in progress, no response yet
NoRequest == [pending |-> None, op |-> None, target |-> None, status |-> 0]
DaySeconds == 86400
TickSeconds == 900

Tiers == <<"hourly", "daily", "weekly", "monthly", "yearly">>
TierSet == {"hourly", "daily", "weekly", "monthly", "yearly"}

MonthDays == <<31, 28, 31, 30, 31, 30, 31, 31, 30, 31, 30, 31>>

DayIndex(t) == t \div DaySeconds

\* datetime.weekday(): Monday = 0 ... Sunday = 6
Weekday(t) == (DayIndex(t) + 6) % 7

RECURSIVE MonthFrom(_, _)
MonthFrom(yday, m) ==
    IF m = 12 \/ yday < MonthDays[m] THEN <<m, yday + 1>>
    ELSE MonthFrom(yday - MonthDays[m], m + 1)

\* datetime.month and datetime.day
MonthOf(t) == MonthFrom(DayIndex(t) % 365, 1)[1]
DayOfMonth(t) == MonthFrom(DayIndex(t) % 365, 1)[2]

\* now.replace(hour=h, minute=m, second=0, microsecond=0)
ReplaceTime(now, h, m) == DayIndex(now) * DaySeconds + h * 3600 + m * 60

\* hour, minute = map(int, scheduled_time.split(":"))
TimeStrings == {"00:00", "00:15", "00:30", "01:00", "02:00", "03:00", "04:00", "05:00"}
ParseTime(s) ==
    CASE s = "00:00" -> <<0, 0>>
      [] s = "00:15" -> <<0, 15>>
      [] s = "00:30" -> <<0, 30>>
      [] s = "01:00" -> <<1, 0>>
      [] s = "02:00" -> <<2, 0>>
      [] s = "03:00" -> <<3, 0>>
      [] s = "04:00" -> <<4, 0>>
      [] s = "05:00" -> <<5, 0>>

----------------------------------------------------------------------------
(* Tier schedule evaluation *)

TierConfig(en, keep, ih, tm, dow, dom, mo) ==
    [enabled |-> en, keep_count |-> keep, interval_hours |-> ih, time |-> tm,
     day_of_week |-> dow, day_of_month |-> dom, month |-> mo]

\* the shared tail of the daily, weekly, monthly and yearly branches
TodayScheduled(tier_config, now) ==
    ReplaceTime(now, ParseTime(tier_config.time)[1], ParseTime(tier_config.time)[2])

\* should_run_tier that compares datetime.weekday() (Monday = 0) with
\* day_of_week as it is, without the shift to Sunday = 0
should_run_tier_monday_zero(tier, tier_config, last_backup_at, now) ==
    IF ~tier_config.enabled THEN FALSE
    ELSE IF last_backup_at = NoTime THEN TRUE
    ELSE IF tier = "hourly"
    THEN (now - last_backup_at) >= tier_config.interval_hours * 3600
    ELSE IF \/ tier = "weekly" /\ Weekday(now) # tier_config.day_of_week
            \/ tier = "monthly" /\ DayOfMonth(now) # tier_config.day_of_month
            \/ tier = "yearly" /\ (\/ MonthOf(now) # tier_config.month
                                   \/ DayOfMonth(now) # tier_config.day_of_month)
    THEN FALSE
    ELSE /\ now >= TodayScheduled(tier_config, now)
         /\ last_backup_at < TodayScheduled(tier_config, now)

\* should_run_tier with an exclusive lower bound: now > today_scheduled
should_run_tier_exclusive(tier, tier_config, last_backup_at, now) ==
    IF ~tier_config.enabled THEN FALSE
    ELSE IF last_backup_at = NoTime THEN TRUE
    ELSE IF tier = "hourly"
         THEN (now - last_backup_at) >= tier_config.interval_hours * 3600
    ELSE IF \/ tier = "weekly" /\ (Weekday(now) + 1) % 7 # tier_config.day_of_week
            \/ tier = "monthly" /\ DayOfMonth(now) # tier_config.day_of_month
            \/ tier = "yearly" /\ (MonthOf(now) # tier_config.month
                                    \/ DayOfMonth(now) # tier_config.day_of_month)
         THEN FALSE
    ELSE /\ now > TodayScheduled(tier_config, now)
         /\ last_backup_at < TodayScheduled(tier_config, now)

should_run_tier(tier, tier_config, last_backup_at, now) ==
    IF ~tier_config.enabled THEN FALSE
    ELSE IF last_backup_at = NoTime THEN TRUE
    ELSE CASE tier = "hourly" ->
                (now - last_backup_at) >= tier_config.interval_hours * 3600
           [] tier = "daily" ->
                /\ now >= TodayScheduled(tier_config, now)
                /\ last_backup_at < TodayScheduled(tier_config, now)
           [] tier = "weekly" ->
                IF (Weekday(now) + 1) % 7 # tier_config.day_of_week THEN FALSE
                ELSE /\ now >= TodayScheduled(tier_config, now)
                     /\ last_backup_at < TodayScheduled(tier_config, now)
           [] tier = "monthly" ->
                IF DayOfMonth(now) # tier_config.day_of_month THEN FALSE
                ELSE /\ now >= TodayScheduled(tier_config, now)
                     /\ last_backup_at < TodayScheduled(tier_config, now)
           [] tier = "yearly" ->
                IF MonthOf(now) # tier_config.month
                   \/ DayOfMonth(now) # tier_config.day_of_month THEN FALSE
                ELSE /\ now >= TodayScheduled(tier_config, now)
                     /\ last_backup_at < TodayScheduled(tier_config, now)
           [] OTHER -> FALSE

----------------------------------------------------------------------------
(* Catalog *)

DbIds == <<"d1", "d2">>          \* in get_all order (sorted by name)
Workers == {"w1", "w2"}
DefaultPolicyId == "production-standard"

Policy(id, sys, h, d, w, m, y) ==
    [id |-> id, is_system |-> sys, hourly |-> h, daily |-> d, weekly |-> w,
     monthly |-> m, yearly |-> y]

Disabled == TierConfig(FALSE, 0, 1, "02:00", 0, 1, 1)

\* get_default_policies(): the seeded production-standard policy
ProductionStandard ==
    Policy(DefaultPolicyId, TRUE,
           TierConfig(TRUE, 12, 1, "02:00", 0, 1, 1),
           TierConfig(TRUE, 7, 1, "02:00", 0, 1, 1),
           TierConfig(TRUE, 4, 1, "03:00", 0, 1, 1),
           TierConfig(TRUE, 2, 1, "04:00", 0, 1, 1),
           TierConfig(TRUE, 1, 1, "05:00", 0, 1, 1))

\* policies an operator can create through the policy endpoints
CustomPolicies ==
    { Policy("custom", FALSE, TierConfig(TRUE, 1, 1, "02:00", 0, 1, 1),
             Disabled, Disabled, Disabled, Disabled),
      Policy("custom", FALSE, Disabled,
             TierConfig(TRUE, 1, 1, "00:15", 0, 1, 1),
             Disabled, Disabled, Disabled),
      Policy("custom", FALSE, TierConfig(TRUE, 1, 1, "02:00", 0, 1, 1),
             TierConfig(TRUE, 0, 1, "00:15", 0, 1, 1),
             Disabled, Disabled, Disabled) }

TierOf(policy, tier_name) ==
    CASE tier_name = "hourly" -> policy.hourly
      [] tier_name = "daily" -> policy.daily
      [] tier_name = "weekly" -> policy.weekly
      [] tier_name = "monthly" -> policy.monthly
      [] tier_name = "yearly" -> policy.yearly

\* engine_service.get / storage_service.get_backup_policy: None when absent
GetEngine(engine_id) ==
    IF engine_id \in DOMAIN engines THEN engines[engine_id] ELSE NoRow
\* a get_backup_policy whose result has lost the is_system mark of the entity
GetPolicyNotSystem(policy_id) ==
    IF policy_id \in DOMAIN policies
    THEN [policies[policy_id] EXCEPT !.is_system = FALSE] ELSE NoRow
GetPolicy(policy_id) ==
    IF policy_id \in DOMAIN policies THEN policies[policy_id] ELSE NoRow
GetDatabase(database_id) ==
    IF database_id \in DOMAIN databases THEN databases[database_id] ELSE NoRow

\* get_all(enabled_only): the configs in name order
RECURSIVE SelectDbs(_, _)
SelectDbs(i, enabled_only) ==
    IF i > Len(DbIds) THEN <<>>
    ELSE IF DbIds[i] \in DOMAIN databases
            /\ (enabled_only => databases[DbIds[i]].enabled)
         THEN <<databases[DbIds[i]]>> \o SelectDbs(i + 1, enabled_only)
         ELSE SelectDbs(i + 1, enabled_only)
get_all(enabled_only) == SelectDbs(1, enabled_only)

\* attribute access on a model object: a name that is not a field of the
\* object raises AttributeError
HasAttr(obj, name) == name \in DOMAIN obj

\* dynamic_scheduler: policy resolution of one database; an AttributeError at
\* line 268 (db_config.use_engine_policy) or 275 (engine.policy_id) is caught
\* at line 376 and the database is skipped, as it is when no policy is found
\* (NoRow)
SchedulerPolicy(db_config) ==
    IF ~HasAttr(db_config, "use_engine_policy") THEN NoRow
    ELSE
    LET engine == IF db_config.use_engine_policy /\ db_config.engine_id # None
                  THEN GetEngine(db_config.engine_id) ELSE NoRow
    IN IF engine.id # None /\ ~HasAttr(engine, "policy_id") THEN NoRow
       ELSE
       LET fromEngine == IF engine.id # None /\ engine.policy_id # None
                         THEN engine.policy_id ELSE None
           policy_id == IF fromEngine # None THEN fromEngine
                        ELSE IF db_config.policy_id # None THEN db_config.policy_id
                        ELSE DefaultPolicyId
           used == IF GetPolicy(policy_id).id # None THEN policy_id
                   ELSE DefaultPolicyId
       IN GetPolicy(used)

----------------------------------------------------------------------------
(* Backup history table *)

NoBlob == <<>>            \* blob_name = None
NoNumber == -1            \* None in a numeric field
DumpSize == 1             \* len(backup_data.getvalue()); the dump is not modelled
PipelineError == "error"  \* str(e) of the exception that ended the pipeline
EmptyBlob == <<"">>       \* blob_name = "" in a table entity
max_ticks == 2147483647   \* DateTime.MaxValue.Ticks, scaled to seconds in 32 bits
HistoryScanLimit == 100   \* limit passed by get_last_backup_for_tier
CleanupScanLimit == 10000 \* limit passed by cleanup_old_backups

\* BackupResult(...) as constructed by backup_processor
BackupResult(id, job, now) ==
    [id |-> id, job_id |-> job.id, database_id |-> job.database_id,
     status |-> "pending", started_at |-> NoTime, completed_at |-> NoTime,
     duration_seconds |-> NoNumber, blob_name |-> NoBlob,
     file_size_bytes |-> NoNumber, error_message |-> None, retry_count |-> 0,
     triggered_by |-> job.triggered_by, tier |-> job.tier, created_at |-> now]

mark_started(result, now) ==
    [result EXCEPT !.status = "in_progress", !.started_at = now]

\* mark_completed that stamps created_at anew
mark_completed_restamped(result, blob_name, file_size_bytes, now) ==
    [result EXCEPT !.status = "completed", !.completed_at = now,
                   !.created_at = now,
                   !.blob_name = blob_name,
                   !.file_size_bytes = file_size_bytes,
                   !.duration_seconds = IF result.started_at # NoTime
                                        THEN now - result.started_at ELSE @]

mark_completed(result, blob_name, file_size_bytes, now) ==
    [result EXCEPT !.status = "completed", !.completed_at = now,
                   !.blob_name = blob_name,
                   !.file_size_bytes = file_size_bytes,
                   !.duration_seconds = IF result.started_at # NoTime
                                        THEN now - result.started_at ELSE @]

mark_failed(result, error_message, now) ==
    [result EXCEPT !.status = "failed", !.completed_at = now,
                   !.error_message = error_message,
                   !.duration_seconds = IF result.started_at # NoTime
                                        THEN now - result.started_at ELSE @]

to_table_entity(r) ==
    [PartitionKey |-> DayIndex(r.created_at),
     RowKey |-> <<max_ticks - r.created_at, r.id>>,
     job_id |-> r.job_id, database_id |-> r.database_id, status |-> r.status,
     started_at |-> r.started_at, completed_at |-> r.completed_at,
     duration_seconds |-> IF r.duration_seconds = NoNumber THEN 0
                          ELSE r.duration_seconds,
     blob_name |-> IF r.blob_name = NoBlob THEN EmptyBlob ELSE r.blob_name,
     file_size_bytes |-> IF r.file_size_bytes = NoNumber THEN 0
                         ELSE r.file_size_bytes,
     error_message |-> IF r.error_message = None THEN "" ELSE r.error_message,
     retry_count |-> r.retry_count, triggered_by |-> r.triggered_by,
     tier |-> IF r.tier = None THEN "" ELSE r.tier,
     created_at |-> r.created_at]

from_table_entity(e) ==
    [id |-> e.RowKey[2], job_id |-> e.job_id, database_id |-> e.database_id,
     status |-> e.status, started_at |-> e.started_at,
     completed_at |-> e.completed_at,
     duration_seconds |-> IF e.duration_seconds = 0 THEN NoNumber
                          ELSE e.duration_seconds,
     blob_name |-> IF e.blob_name = EmptyBlob THEN NoBlob ELSE e.blob_name,
     file_size_bytes |-> IF e.file_size_bytes = 0 THEN NoNumber
                         ELSE e.file_size_bytes,
     error_message |-> IF e.error_message = "" THEN None ELSE e.error_message,
     retry_count |-> e.retry_count, triggered_by |-> e.triggered_by,
     tier |-> IF e.tier = "" THEN None ELSE e.tier,
     created_at |-> e.created_at]

\* table_client.upsert_entity: replaces the row with the same keys
save_backup_result(table, result) ==
    LET entity == to_table_entity(result)
    IN { e \in table : ~(e.PartitionKey = entity.PartitionKey
                         /\ e.RowKey = entity.RowKey) } \cup {entity}

\* order in which query_entities returns rows: PartitionKey, then RowKey
TableBefore(a, b) ==
    \/ a.PartitionKey < b.PartitionKey
    \/ /\ a.PartitionKey = b.PartitionKey
       /\ \/ a.RowKey[1] < b.RowKey[1]
          \/ a.RowKey[1] = b.RowKey[1] /\ a.RowKey[2] < b.RowKey[2]

\* results.sort(key=created_at, reverse=True); the sort is stable
SortedBefore(a, b) ==
    \/ a.created_at > b.created_at
    \/ a.created_at = b.created_at /\ TableBefore(to_table_entity(a), to_table_entity(b))

\* get_backup_history without the database_id filter
get_backup_history_unfiltered(table, database_id, limit) ==
    LET taken == { e \in table :
                     Cardinality({ x \in table : TableBefore(x, e) }) < limit }
        results == { from_table_entity(e) : e \in taken }
    IN [ i \in 1..Cardinality(results) |->
           CHOOSE r \in results :
               Cardinality({ x \in results : SortedBefore(x, r) }) = i - 1 ]

get_backup_history(table, database_id, limit) ==
    LET entities == { e \in table :
                        database_id = None \/ e.database_id = database_id }
        taken == { e \in entities :
                     Cardinality({ x \in entities : TableBefore(x, e) }) < limit }
        results == { from_table_entity(e) : e \in taken }
    IN [ i \in 1..Cardinality(results) |->
           CHOOSE r \in results :
               Cardinality({ x \in results : SortedBefore(x, r) }) = i - 1 ]

RECURSIVE FirstCompleted(_, _, _)
FirstCompleted(hist, i, tier) ==
    IF i > Len(hist) THEN NoTime
    ELSE IF hist[i].status = "completed"
            /\ (hist[i].tier = tier \/ (hist[i].tier = None /\ tier = "daily"))
         THEN hist[i].completed_at
         ELSE FirstCompleted(hist, i + 1, tier)

get_last_backup_for_tier(database_id, tier) ==
    FirstCompleted(get_backup_history(history, database_id, HistoryScanLimit), 1, tier)

----------------------------------------------------------------------------
(* Scheduler *)

\* BackupJob(...); the connection fields copied from the config and the job's
\* own created_at play no part in what follows and are left out
BackupJob(database_id, username, secret, triggered_by, tier, scheduled_at) ==
    [id |-> 0, database_id |-> database_id, username |-> username,
     password_secret_name |-> secret, triggered_by |-> triggered_by,
     tier |-> tier, scheduled_at |-> scheduled_at]

to_queue_message(job) == [valid |-> TRUE, job |-> job]

\* TierLoop without the break after the first queued tier
RECURSIVE TierLoopNoBreak(_, _, _, _)
TierLoopNoBreak(db_config, policy, i, now) ==
    IF i > Len(Tiers) THEN <<>>
    ELSE LET tier_name == Tiers[i]
             tier_config == TierOf(policy, tier_name)
         IN IF tier_config.enabled
               /\ should_run_tier(tier_name, tier_config,
                      get_last_backup_for_tier(db_config.id, tier_name), now)
               /\ ~db_config.use_engine_credentials
               /\ db_config.username # None
            THEN <<BackupJob(db_config.id, db_config.username,
                             db_config.password_secret_name, "scheduler",
                             tier_name, now)>>
                 \o TierLoopNoBreak(db_config, policy, i + 1, now)
            ELSE TierLoopNoBreak(db_config, policy, i + 1, now)

\* the tier loop of dynamic_scheduler for one database: the job it queues, if any
RECURSIVE TierLoop(_, _, _, _)
TierLoop(db_config, policy, i, now) ==
    IF i > Len(Tiers) THEN <<>>
    ELSE LET tier_name == Tiers[i]
             tier_config == TierOf(policy, tier_name)
             engine == GetEngine(db_config.engine_id)
             viaEngine == db_config.use_engine_credentials /\ db_config.engine_id # None
             username == IF viaEngine THEN engine.username ELSE db_config.username
             secret == IF viaEngine THEN "engine-" \o engine.id
                       ELSE db_config.password_secret_name
         IN IF ~tier_config.enabled THEN TierLoop(db_config, policy, i + 1, now)
            ELSE IF ~should_run_tier(tier_name, tier_config,
                        get_last_backup_for_tier(db_config.id, tier_name), now)
                 THEN TierLoop(db_config, policy, i + 1, now)
            ELSE IF viaEngine /\ (engine.id = None \/ engine.username = None)
                 THEN TierLoop(db_config, policy, i + 1, now)
            ELSE IF username = None
                 THEN TierLoop(db_config, policy, i + 1, now)
            ELSE <<BackupJob(db_config.id, username, secret, "scheduler",
                             tier_name, now)>>

RECURSIVE DatabaseLoop(_, _, _)
DatabaseLoop(dbs, i, now) ==
    IF i > Len(dbs) THEN <<>>
    ELSE LET policy == SchedulerPolicy(dbs[i])
         IN (IF policy.id = None THEN <<>> ELSE TierLoop(dbs[i], policy, 1, now))
            \o DatabaseLoop(dbs, i + 1, now)

\* uuid4 ids are handed out in the order the jobs are built
NumberJobs(jobs, first) ==
    [ i \in 1..Len(jobs) |-> [jobs[i] EXCEPT !.id = first + i - 1] ]

Range(seq) == { seq[i] : i \in 1..Len(seq) }

\* queue_client.send_message
send_backup_job(q, job) ==
    q \cup {[id |-> job.id, body |-> to_queue_message(job),
             dequeue_count |-> 0, holder |-> None]}

send_all(q, jobs) ==
    q \cup {[id |-> j.id, body |-> to_queue_message(j),
             dequeue_count |-> 0, holder |-> None] : j \in jobs}

dynamic_scheduler ==
    /\ clock % TickSeconds = 0
    /\ lastTick < clock
    /\ LET jobs == NumberJobs(DatabaseLoop(get_all(TRUE), 1, clock), nextId)
       IN /\ Cardinality(sent) + Len(jobs) <= MaxJobs
          /\ queue' = send_all(queue, Range(jobs))
          /\ sent' = sent \cup Range(jobs)
          /\ nextId' = nextId + Len(jobs)
    /\ lastTick' = clock
    /\ UNCHANGED <<audit, inflight, api, clock, databases, engines, policies, history, blobs, poison,
                   workers, retention, pred>>

\* the passage of time between timer firings; a due tick runs first
Advance ==
    /\ clock < MaxTicks * TickSeconds
    /\ clock % TickSeconds = 0 => lastTick = clock
    /\ clock' = IF clock % TickSeconds = 0 THEN clock + 1
                ELSE (clock \div TickSeconds + 1) * TickSeconds
    /\ UNCHANGED <<audit, inflight, api, lastTick, databases, engines, policies, history, blobs,
                   queue, poison, workers, sent, nextId, retention, pred>>

----------------------------------------------------------------------------
(* Worker: the queue-triggered backup_processor and its host *)

\* an id derived from the job alone, the same at every delivery
ResultIdOfJob(job_id, delivery) == job_id * (maxDequeueCount + 1) + 1

\* uuid4 of a BackupResult: one fresh id per delivery of a message
ResultId(job_id, delivery) == job_id * (maxDequeueCount + 1) + delivery

Idle == [pc |-> "idle", msg |-> 0, dequeue_count |-> 0, job |-> NoRow,
         result |-> NoRow, blob_name |-> NoBlob]

from_queue_message(body) == body.job

\* lines 96-110: the password the worker finds for the job's database
ResolvePassword(database_id) ==
    LET config == GetDatabase(database_id)
    IN IF config.id = None THEN None
       ELSE IF config.use_engine_credentials /\ config.engine_id # None
            THEN (IF GetEngine(config.engine_id).id # None
                  THEN GetEngine(config.engine_id).password ELSE None)
            ELSE config.password

\* "{database_type}/{database_id}/{%Y%m%d_%H%M%S}.{file_format}": type and
\* format are fixed per database, the timestamp has one-second resolution
BlobName(job, now) == <<job.database_id, now>>

\* the host hands a visible message to an idle worker; the worker parses it,
\* builds the BackupResult, marks it started and saves it (lines 63-86)
ProcessorBegin(w) ==
    /\ workers[w].pc = "idle"
    /\ \E m \in queue :
         /\ m.holder = None
         /\ m.dequeue_count < maxDequeueCount
         /\ m.body.valid
         /\ LET job == from_queue_message(m.body)
                result == mark_started(
                            BackupResult(ResultId(job.id, m.dequeue_count + 1),
                                         job, clock), clock)
            IN /\ history' = save_backup_result(history, result)
               /\ workers' = [workers EXCEPT ![w] =
                     [pc |-> "running", msg |-> m.id,
                      dequeue_count |-> m.dequeue_count + 1, job |-> job,
                      result |-> result, blob_name |-> NoBlob]]
         /\ queue' = (queue \ {m}) \cup
                     {[m EXCEPT !.dequeue_count = m.dequeue_count + 1, !.holder = w]}
    /\ UNCHANGED <<audit, inflight, api, clock, lastTick, databases, engines, policies, blobs, poison,
                   sent, nextId, retention, pred>>

\* lines 94-136: password found, dump succeeds, blob uploaded (overwrite=True)
ProcessorUpload(w) ==
    /\ workers[w].pc = "running"
    /\ ResolvePassword(workers[w].job.database_id) # None
    /\ LET blob_name == BlobName(workers[w].job, clock)
       IN /\ blobs' = blobs \cup {blob_name}
          /\ workers' = [workers EXCEPT ![w].pc = "uploaded",
                                        ![w].blob_name = blob_name]
    /\ UNCHANGED <<audit, inflight, api, clock, lastTick, databases, engines, policies, history, queue,
                   poison, sent, nextId, retention, pred>>

\* the function returned: the host deletes the message
HostComplete(q, w) == { m \in q : m.holder # w }

\* ProcessorFinish that does not wait for the upload to return
ProcessorFinishEarly(w) ==
    /\ workers[w].pc \in {"running", "uploaded"}
    /\ history' = save_backup_result(history,
                     mark_completed(workers[w].result, workers[w].blob_name,
                                    DumpSize, clock))
    /\ queue' = HostComplete(queue, w)
    /\ workers' = [workers EXCEPT ![w] = Idle]
    /\ UNCHANGED <<audit, inflight, api, clock, lastTick, databases, engines, policies, blobs, poison,
                   sent, nextId, retention, pred>>

\* lines 141-164: mark_completed, final save, return
ProcessorFinish(w) ==
    /\ workers[w].pc = "uploaded"
    /\ history' = save_backup_result(history,
                     mark_completed(workers[w].result, workers[w].blob_name,
                                    DumpSize, clock))
    /\ queue' = HostComplete(queue, w)
    /\ workers' = [workers EXCEPT ![w] = Idle]
    /\ UNCHANGED <<audit, inflight, api, clock, lastTick, databases, engines, policies, blobs, poison,
                   sent, nextId, retention, pred>>

\* ProcessorFail that lets the exception escape after the final save: the
\* host does not complete the message, which becomes visible again
ProcessorFailRaise(w) ==
    /\ workers[w].pc = "running"
    /\ history' = save_backup_result(history,
                     [mark_failed(workers[w].result, PipelineError, clock)
                        EXCEPT !.retry_count = workers[w].dequeue_count])
    /\ queue' = { IF m.holder = w THEN [m EXCEPT !.holder = None] ELSE m : m \in queue }
    /\ workers' = [workers EXCEPT ![w] = Idle]
    /\ UNCHANGED <<audit, inflight, api, clock, lastTick, databases, engines, policies, blobs, poison,
                   sent, nextId, retention, pred>>

\* ProcessorFail without the final save of the failed result
ProcessorFailUnsaved(w) ==
    /\ workers[w].pc = "running"
    /\ queue' = HostComplete(queue, w)
    /\ workers' = [workers EXCEPT ![w] = Idle]
    /\ UNCHANGED <<audit, inflight, api, clock, lastTick, databases, engines, policies, history, blobs,
                   poison, sent, nextId, retention, pred>>

\* lines 154-164: any exception of the pipeline is caught, the result is
\* marked failed and saved, and the function returns normally
ProcessorFail(w) ==
    /\ workers[w].pc = "running"
    /\ history' = save_backup_result(history,
                     [mark_failed(workers[w].result, PipelineError, clock)
                        EXCEPT !.retry_count = workers[w].dequeue_count])
    /\ queue' = HostComplete(queue, w)
    /\ workers' = [workers EXCEPT ![w] = Idle]
    /\ UNCHANGED <<audit, inflight, api, clock, lastTick, databases, engines, policies, blobs, poison,
                   sent, nextId, retention, pred>>

\* the host process is stopped in mid-invocation (timeout, scale-in, restart):
\* the message was not deleted and becomes visible again
HostCrash(w) ==
    /\ workers[w].pc \in {"running", "uploaded"}
    /\ queue' = { IF m.holder = w THEN [m EXCEPT !.holder = None] ELSE m : m \in queue }
    /\ workers' = [workers EXCEPT ![w] = Idle]
    /\ UNCHANGED <<audit, inflight, api, clock, lastTick, databases, engines, policies, history, blobs,
                   poison, sent, nextId, retention, pred>>

\* a message delivered maxDequeueCount times without completion goes to poison
HostPoison ==
    /\ \E m \in queue :
         /\ m.holder = None
         /\ m.dequeue_count >= maxDequeueCount
         /\ queue' = queue \ {m}
         /\ poison' = poison \cup {m}
    /\ UNCHANGED <<audit, inflight, api, clock, lastTick, databases, engines, policies, history, blobs,
                   workers, sent, nextId, retention, pred>>

----------------------------------------------------------------------------
(* Retention: cleanup_old_backups *)

\* cleanup_old_backups: policy resolution of one database (lines 428-460); an
\* AttributeError at line 431 or 438 is caught at line 535 and the database
\* is skipped
CleanupPolicy(db_config) ==
    IF ~HasAttr(db_config, "use_engine_policy") THEN NoRow
    ELSE
    LET engine == IF db_config.use_engine_policy /\ db_config.engine_id # None
                  THEN GetEngine(db_config.engine_id) ELSE NoRow
    IN IF engine.id # None /\ ~HasAttr(engine, "policy_id") THEN NoRow
       ELSE
       LET fromEngine == IF engine.id # None /\ engine.policy_id # None
                         THEN engine.policy_id ELSE None
           policy_id == IF fromEngine # None THEN fromEngine
                        ELSE IF db_config.policy_id # None THEN db_config.policy_id
                        ELSE DefaultPolicyId
           used == IF GetPolicy(policy_id).id # None THEN policy_id
                   ELSE DefaultPolicyId
       IN GetPolicy(used)

\* lines 481-489: the completed backups of one bucket, in all_backups order
Bucket(all_backups, bucket) ==
    LET InBucket(b) ==
          /\ b.status = "completed"
          /\ IF b.tier \in TierSet THEN b.tier = bucket ELSE bucket = "unknown"
    IN SelectSeq(all_backups, InBucket)

\* tier_backups[keep_count:] after the descending sort
Excess(tier_backups, keep_count) ==
    SubSeq(tier_backups, keep_count + 1, Len(tier_backups))

\* BucketDeletes that takes as many blobs as there are results in excess from
\* the oldest blobs still in the container
BucketDeletesOldestPresent(tier_backups, keep_count) ==
    LET present == SelectSeq(tier_backups, LAMBDA b : b.blob_name \in blobs)
        n == IF Len(tier_backups) > keep_count
             THEN Len(tier_backups) - keep_count ELSE 0
        first == IF Len(present) > n THEN Len(present) - n + 1 ELSE 1
    IN { present[i].blob_name : i \in first..Len(present) }

\* blobs whose deletion is requested for one bucket (lines 511-518, 526-533)
BucketDeletes(tier_backups, keep_count) ==
    { b.blob_name : b \in { x \in Range(Excess(tier_backups, keep_count)) :
                              x.blob_name # NoBlob } }

\* the blob names one database's pass asks delete_backup to remove
CleanupDatabase(db_config, table) ==
    LET policy == CleanupPolicy(db_config)
        all_backups == get_backup_history(table, db_config.id, CleanupScanLimit)
        tierDeletes == UNION { IF TierOf(policy, t).enabled
                               THEN BucketDeletes(Bucket(all_backups, t),
                                                  TierOf(policy, t).keep_count)
                               ELSE {} : t \in TierSet }
        legacyDeletes == IF policy.daily.enabled
                         THEN BucketDeletes(Bucket(all_backups, "unknown"),
                                            policy.daily.keep_count)
                         ELSE {}
    IN IF policy.id = None \/ Len(all_backups) = 0 THEN {}
       ELSE tierDeletes \cup legacyDeletes

\* storage_service.delete_backup: removes the blob, nothing else
delete_backup(container, blob_name) == container \ {blob_name}

cleanup_old_backups ==
    /\ LET dbs == get_all(FALSE)
           deletes == UNION { CleanupDatabase(dbs[i], history) : i \in 1..Len(dbs) }
       IN /\ blobs' = blobs \ deletes
          /\ retention' = [NoPass EXCEPT !.ran = TRUE,
                                          !.deleted = deletes \cap blobs]
    /\ UNCHANGED <<audit, inflight, api, clock, lastTick, databases, engines, policies, history, queue,
                   poison, workers, sent, nextId, pred>>

----------------------------------------------------------------------------
(* API endpoints that touch the queue, the container and the history table *)

\* POST /databases/{id}/backup
trigger_backup(database_id) ==
    /\ Cardinality(sent) < MaxJobs
    /\ LET config == GetDatabase(database_id)
       IN /\ config.id # None
          /\ config.username # None
          /\ LET job == [BackupJob(config.id, config.username,
                                   config.password_secret_name, "manual", None,
                                   NoTime) EXCEPT !.id = nextId]
             IN /\ queue' = send_backup_job(queue, job)
                /\ sent' = sent \cup {job}
    /\ nextId' = nextId + 1
    /\ UNCHANGED <<audit, inflight, api, clock, lastTick, databases, engines, policies, history, blobs,
                   poison, workers, retention, pred>>

\* DELETE /backups/delete?blob_name=...
delete_backup_file(blob_name) ==
    /\ blob_name \in blobs
    /\ blobs' = delete_backup(blobs, blob_name)
    /\ UNCHANGED <<audit, inflight, api, clock, lastTick, databases, engines, policies, history, queue,
                   poison, workers, sent, nextId, retention, pred>>

\* storage_service.delete_backup_result: the first row whose key ends in the id
delete_backup_result(table, backup_id) ==
    LET matches == { e \in table : e.RowKey[2] = backup_id }
    IN table \ { e \in matches : \A x \in matches : ~TableBefore(x, e) }

\* DELETE /backups/{backup_id}
delete_backup_record(backup_id) ==
    /\ \E e \in history : e.RowKey[2] = backup_id
    /\ history' = delete_backup_result(history, backup_id)
    /\ UNCHANGED <<audit, inflight, api, clock, lastTick, databases, engines, policies, blobs, queue,
                   poison, workers, sent, nextId, retention, pred>>

----------------------------------------------------------------------------
(* The system *)

\* DatabaseConfig as the model class declares it and from_table_entity builds it
DatabaseConfig(id, enabled, policy_id, engine_id, use_engine_credentials, username, password_secret_name, password) ==
    [id |-> id, enabled |-> enabled, policy_id |-> policy_id,
     engine_id |-> engine_id, use_engine_credentials |-> use_engine_credentials,
     username |-> username, password_secret_name |-> password_secret_name,
     password |-> password]

\* the Database of the data model, which also carries use_engine_policy; the
\* scheduler and the retention pass read that field
WithEnginePolicy(config, use_engine_policy) ==
    [f \in DOMAIN config \cup {"use_engine_policy"} |->
        IF f = "use_engine_policy" THEN use_engine_policy ELSE config[f]]

Seeded(custom, d2enabled) ==
    /\ policies = (DefaultPolicyId :> ProductionStandard) @@ ("custom" :> custom)
    /\ engines = ("e1" :> [id |-> "e1", policy_id |-> None, username |-> "eu",
                           password |-> "epw"])
    /\ databases =
         ("d1" :> WithEnginePolicy(
                    DatabaseConfig("d1", TRUE, "custom", None, FALSE, "u1", None,
                                   "pw1"), FALSE))
         @@
         ("d2" :> WithEnginePolicy(
                    DatabaseConfig("d2", d2enabled, "retired", "e1", TRUE, None,
                                   None, None), TRUE))

Init ==
    /\ clock = 0
    /\ lastTick = NoTime
    /\ \E custom \in CustomPolicies, d2enabled \in BOOLEAN : Seeded(custom, d2enabled)
    /\ history = {}
    /\ blobs = {}
    /\ queue = {}
    /\ poison = {}
    /\ workers = [w \in Workers |-> Idle]
    /\ sent = {}
    /\ nextId = 1
    /\ retention = NoPass
    /\ api = NoRequest
    /\ audit = {}
    /\ inflight = {}
    /\ pred = NoRow

\* one whole invocation of backup_processor that nothing interrupts:
\* lines 63-164 on the success path (ok) or with a failing pipeline
backup_processor(ok) ==
    /\ \E m \in queue :
         /\ m.holder = None
         /\ m.dequeue_count < maxDequeueCount
         /\ m.body.valid
         /\ LET job == from_queue_message(m.body)
                started == mark_started(
                             BackupResult(ResultId(job.id, m.dequeue_count + 1),
                                          job, clock), clock)
                blob_name == BlobName(job, clock)
                success == ok /\ ResolvePassword(job.database_id) # None
                final == IF success THEN mark_completed(started, blob_name, DumpSize, clock)
                         ELSE [mark_failed(started, PipelineError, clock)
                                 EXCEPT !.retry_count = m.dequeue_count + 1]
            IN /\ history' = save_backup_result(save_backup_result(history, started), final)
               /\ blobs' = IF success THEN blobs \cup {blob_name} ELSE blobs
         /\ queue' = queue \ {m}
    /\ UNCHANGED <<audit, inflight, api, clock, lastTick, databases, engines, policies, poison, workers,
                   sent, nextId, retention, pred>>

\* Scheduler, queue and workers over time
Next ==
    \/ dynamic_scheduler
    \/ Advance
    \/ \E ok \in BOOLEAN : backup_processor(ok)
    \/ \E d \in Range(DbIds) : trigger_backup(d)

Spec == Init /\ [][Next]_vars

----------------------------------------------------------------------------
(* Properties of the scheduler *)

SchedulerJobs(database_id) ==
    { j \in sent : j.triggered_by = "scheduler" /\ j.database_id = database_id }

\* tiers of a database that are enabled and whose predicate holds at `now`
DueTiers(db_config, now) ==
    { t \in TierSet :
        /\ SchedulerPolicy(db_config).id # None
        /\ TierOf(SchedulerPolicy(db_config), t).enabled
        /\ should_run_tier(t, TierOf(SchedulerPolicy(db_config), t),
                           get_last_backup_for_tier(db_config.id, t), now) }

\* C1: a scheduler tick (identified by its scheduled_at) enqueues at most one
\* job per database, however many tiers are due in that tick
C1_OneJobPerDatabasePerTick ==
    \A d \in Range(DbIds) : \A j1, j2 \in SchedulerJobs(d) :
        j1.scheduled_at = j2.scheduled_at => j1 = j2

\* a tick has just run for a database with several due tiers and queued one job
C1_Witness ==
    /\ lastTick = clock
    /\ \E d \in DOMAIN databases :
         /\ databases[d].enabled
         /\ Cardinality(DueTiers(databases[d], clock)) >= 2
         /\ Cardinality({ j \in SchedulerJobs(d) : j.scheduled_at = clock }) = 1

HourlyScenario ==
    /\ ~databases["d2"].enabled
    /\ \A t \in TierSet : TierOf(policies["custom"], t).enabled <=> t = "hourly"
    /\ policies["custom"].hourly.interval_hours = 1
    /\ \A j \in sent : j.triggered_by = "scheduler"
    /\ \A e \in history : e.status = "completed"
    /\ \A j \in sent :
         \/ clock < j.scheduled_at + TickSeconds
         \/ \E e \in history : /\ e.job_id = j.id
                               /\ e.completed_at < j.scheduled_at + TickSeconds

JobsOfTick(t) == { j \in SchedulerJobs("d1") : j.scheduled_at = t }

\* C10: in that scenario the tick at t=0 enqueues one job, the ticks at +15,
\* +30 and +45 minutes none, and the tick at +60 minutes the second job
C10_HourlyCadence ==
    HourlyScenario =>
        /\ lastTick >= 0 => Cardinality(JobsOfTick(0)) = 1
        /\ \A k \in 1..3 : JobsOfTick(k * TickSeconds) = {}
        /\ lastTick >= 3600 => Cardinality(JobsOfTick(3600)) = 1

----------------------------------------------------------------------------
(* should_run_tier on its own: inputs drawn from the sets below *)

\* days: Sun 1 Jan, Mon 2 Jan, Wed 1 Feb; times of day around 00:15 and 02:00
PredDays == {0, 1, 31}
PredSeconds == {899, 900, 901, 7199, 7200, 7201}
PredTimes == { d * DaySeconds + t : d \in PredDays, t \in PredSeconds }
PredConfigs ==
    { TierConfig(en, 1, ih, tm, dow, dom, mo) :
        en \in BOOLEAN, ih \in {1, 2}, tm \in {"00:15", "02:00"},
        dow \in {0, 1}, dom \in {1, 2}, mo \in {1, 2} }

InitPred ==
    /\ clock = 0
    /\ lastTick = NoTime
    /\ Seeded(CHOOSE p \in CustomPolicies : TRUE, FALSE)
    /\ history = {}
    /\ blobs = {}
    /\ queue = {}
    /\ poison = {}
    /\ workers = [w \in Workers |-> Idle]
    /\ sent = {}
    /\ nextId = 1
    /\ retention = NoPass
    /\ api = NoRequest
    /\ audit = {}
    /\ inflight = {}
    /\ \E tier \in TierSet, cfg \in PredConfigs, now \in PredTimes,
          last \in PredTimes \cup {NoTime} :
         pred = [id |-> "call", tier |-> tier, cfg |-> cfg, last |-> last,
                 now |-> now, evaluated |-> FALSE, result |-> FALSE]

EvaluatePredicate ==
    /\ ~pred.evaluated
    /\ pred' = [pred EXCEPT !.evaluated = TRUE,
                            !.result = should_run_tier(pred.tier, pred.cfg,
                                                       pred.last, pred.now)]
    /\ UNCHANGED <<audit, inflight, api, clock, lastTick, databases, engines, policies, history, blobs,
                   queue, poison, workers, sent, nextId, retention>>

NextPred == EvaluatePredicate

SpecPred == InitPred /\ [][NextPred]_vars

\* today's scheduled instant, from the HH:MM text of the configuration
ScheduledToday ==
    (pred.now \div 86400) * 86400
      + (IF pred.cfg.time = "00:15" THEN 900 ELSE 7200)

\* C9: for an enabled daily tier with an existing last backup, the predicate
\* holds exactly when now >= today_scheduled and last < today_scheduled: true
\* at today_scheduled itself, false one second earlier, false once the last
\* backup is at or after today_scheduled
C9_DailyBoundary ==
    (pred.id = "call" /\ pred.evaluated /\ pred.tier = "daily"
       /\ pred.cfg.enabled /\ pred.last # NoTime) =>
        /\ (pred.last < ScheduledToday /\ pred.now >= ScheduledToday) => pred.result
        /\ (pred.last < ScheduledToday /\ pred.now < ScheduledToday) => ~pred.result
        /\ pred.last >= ScheduledToday => ~pred.result

\* a daily evaluation at exactly today_scheduled, last backup earlier: fired
C9_Witness ==
    /\ pred.id = "call" /\ pred.evaluated /\ pred.tier = "daily"
    /\ pred.cfg.enabled /\ pred.last # NoTime
    /\ pred.last < ScheduledToday
    /\ pred.now = ScheduledToday
    /\ pred.result

----------------------------------------------------------------------------
(* Retention and deletes over a history left by earlier backups *)

\* earlier backups of database d1, one per hour
SeedIds == {1, 2, 3}
SeedTiers == {"hourly", "daily", None}
SeedTime(i) == i * 3600

\* policies with the hourly tier kept at 0..2 and the daily tier on or off
RetentionPolicies ==
    { Policy("custom", FALSE,
             TierConfig(TRUE, k, 1, "02:00", 0, 1, 1),
             TierConfig(den, 1, 1, "00:15", 0, 1, 1),
             Disabled, Disabled, Disabled) : k \in {0, 1, 2}, den \in BOOLEAN }

\* the row backup_processor leaves for a run at SeedTime(i)
SeedResult(i, tier, ok) ==
    LET job == [BackupJob("d1", "u1", None,
                          IF tier = None THEN "manual" ELSE "scheduler",
                          tier, NoTime) EXCEPT !.id = i]
        started == mark_started(BackupResult(ResultId(i, 1), job, SeedTime(i)),
                                SeedTime(i))
    IN IF ok THEN mark_completed(started, BlobName(job, SeedTime(i)), DumpSize,
                              SeedTime(i))
       ELSE [mark_failed(started, PipelineError, SeedTime(i)) EXCEPT !.retry_count = 1]

InitRet ==
    /\ clock = 4 * 3600
    /\ lastTick = 4 * 3600
    /\ \E custom \in RetentionPolicies : Seeded(custom, TRUE)
    /\ \E tiers \in [SeedIds -> SeedTiers], oks \in [SeedIds -> BOOLEAN] :
         LET results == { SeedResult(i, tiers[i], oks[i]) : i \in SeedIds }
         IN /\ history = { to_table_entity(r) : r \in results }
            /\ blobs = { r.blob_name : r \in { x \in results : x.status = "completed" } }
    /\ queue = {}
    /\ poison = {}
    /\ workers = [w \in Workers |-> Idle]
    /\ sent = {}
    /\ nextId = 4
    /\ retention = NoPass
    /\ api = NoRequest
    /\ audit = {}
    /\ inflight = {}
    /\ pred = NoRow

NextRet ==
    \/ cleanup_old_backups
    \/ \E blob_name \in blobs : delete_backup_file(blob_name)
    \/ \E e \in history : delete_backup_record(e.RowKey[2])

SpecRet == InitRet /\ [][NextRet]_vars

\* completed rows of (database, tier) in a table; rows without tier carry ""
CompletedRows(table, database_id, tier) ==
    { e \in table : e.database_id = database_id /\ e.status = "completed"
                    /\ e.tier = tier }

EffectiveTier(database_id, tier) == TierOf(CleanupPolicy(databases[database_id]), tier)

\* C3: every completed result in the history table has its blob in the
\* container (a blob goes only together with its history row)
C3_CompletedHasBlob ==
    \A e \in history : e.status = "completed" => e.blob_name \in blobs

\* C4: after a retention pass with tier T enabled and keep_count N, the number
\* of completed rows of (D, T) is min(N, number before the pass)
C4_RetentionCount ==
    [][cleanup_old_backups =>
        \A d \in DOMAIN databases, t \in TierSet :
          EffectiveTier(d, t).enabled =>
            LET before == Cardinality(CompletedRows(history, d, t))
                N == EffectiveTier(d, t).keep_count
            IN Cardinality(CompletedRows(history', d, t))
                 = IF N < before THEN N ELSE before]_vars

\* completed rows of the same (database, tier) created after e / not before e
NewerRows(table, e) ==
    { x \in CompletedRows(table, e.database_id, e.tier) : x.created_at > e.created_at }
NotOlderRows(table, e) ==
    { x \in CompletedRows(table, e.database_id, e.tier) :
        x # e /\ x.created_at >= e.created_at }

\* C5: a retention pass leaves the blob and the row of each of the keep_count
\* most recent completed results of an enabled tier, and removes both the row
\* and the blob of every older completed result of that tier
C5_KeepNewestDeleteOlder ==
    [][cleanup_old_backups =>
        \A e \in history :
          (e.status = "completed" /\ e.tier \in TierSet
             /\ EffectiveTier(e.database_id, e.tier).enabled) =>
            LET N == EffectiveTier(e.database_id, e.tier).keep_count
            IN /\ Cardinality(NotOlderRows(history, e)) < N =>
                    /\ e \in history'
                    /\ e.blob_name \in blobs => e.blob_name \in blobs'
               /\ Cardinality(NewerRows(history, e)) >= N =>
                    /\ e \notin history'
                    /\ e.blob_name \notin blobs']_vars

----------------------------------------------------------------------------
(* Queue and workers, step by step, with host restarts *)

InitWorker ==
    /\ clock = 0
    /\ lastTick = NoTime
    /\ Seeded(CHOOSE p \in CustomPolicies : p.hourly.enabled /\ ~p.daily.enabled, TRUE)
    /\ history = {}
    /\ blobs = {}
    /\ queue = {}
    /\ poison = {}
    /\ workers = [w \in Workers |-> Idle]
    /\ sent = {}
    /\ nextId = 1
    /\ retention = NoPass
    /\ api = NoRequest
    /\ audit = {}
    /\ inflight = {}
    /\ pred = NoRow

NextWorker ==
    \/ dynamic_scheduler
    \/ \E d \in Range(DbIds) : trigger_backup(d)
    \/ \E w \in Workers : ProcessorBegin(w)
    \/ \E w \in Workers : ProcessorUpload(w)
    \/ \E w \in Workers : ProcessorFinish(w)
    \/ \E w \in Workers : ProcessorFail(w)
    \/ \E w \in Workers : HostCrash(w)
    \/ HostPoison

SpecWorker == InitWorker /\ [][NextWorker]_vars

\* rows written for one job: one per attempt
Attempts(table, job_id) == { e \in table : e.job_id = job_id }

FailedRowOf(table, w) ==
    \E e \in table : /\ e.RowKey[2] = workers[w].result.id
                     /\ e.job_id = workers[w].job.id
                     /\ e.status = "failed"

\* C6: when the pipeline fails for a message whose dequeue_count is below the
\* poison threshold, a failed result is recorded and the message stays in the
\* queue for another attempt
C6_FailureBelowThresholdRetried ==
    [][\A w \in Workers :
         (ProcessorFail(w) /\ workers[w].dequeue_count < maxDequeueCount) =>
            /\ FailedRowOf(history', w)
            /\ \E m \in queue' : m.id = workers[w].msg]_vars

\* C7: when the pipeline fails for a message whose dequeue_count has reached
\* the poison threshold, the failed result is recorded and the message leaves
\* the queue; no job is attempted more often than the threshold
C7_PoisonThreshold ==
    [][/\ \A w \in Workers :
            (ProcessorFail(w) /\ workers[w].dequeue_count >= maxDequeueCount) =>
               /\ FailedRowOf(history', w)
               /\ ~ \E m \in queue' : m.id = workers[w].msg
               /\ ~ \E m \in poison' : m.id = workers[w].msg
       /\ \A j \in sent' :
            Cardinality(Attempts(history', j.id)) <= maxDequeueCount]_vars

\* a failed result of the last permitted attempt, its message gone for good
C7_Witness ==
    \E e \in history :
       /\ e.status = "failed"
       /\ e.retry_count >= maxDequeueCount
       /\ Cardinality(Attempts(history, e.job_id)) = maxDequeueCount
       /\ ~ \E m \in queue \cup poison : m.id = e.job_id

----------------------------------------------------------------------------
(* One worker draining the queue, no host restarts, fair scheduling *)

LiveWorkers == {"w1"}

NextLive ==
    \/ dynamic_scheduler
    \/ \E d \in Range(DbIds) : trigger_backup(d)
    \/ \E w \in LiveWorkers : ProcessorBegin(w)
    \/ \E w \in LiveWorkers : ProcessorUpload(w)
    \/ \E w \in LiveWorkers : ProcessorFinish(w)
    \/ \E w \in LiveWorkers : ProcessorFail(w)

\* the host starts the function whenever a message is visible, and a started
\* invocation runs to its return
SpecLive ==
    /\ Init
    /\ [][NextLive]_vars
    /\ \A w \in LiveWorkers :
         /\ WF_vars(ProcessorBegin(w))
         /\ WF_vars(ProcessorUpload(w) \/ ProcessorFail(w))
         /\ WF_vars(ProcessorFinish(w))

JobIds == 1..(2 * MaxJobs)

Terminal(job_id) ==
    \E e \in history : e.job_id = job_id /\ e.status \in {"completed", "failed"}

----------------------------------------------------------------------------
(* Order of the tiers within and across ticks *)

TierIndex(t) == CHOOSE i \in 1..Len(Tiers) : Tiers[i] = t

\* the scheduler jobs a step adds for one database
NewSchedulerJobs(database_id) ==
    { j \in sent' \ sent : j.triggered_by = "scheduler" /\ j.database_id = database_id }

\* job j0 was queued for the occurrence of its tier that is current at `now`
SameOccurrence(db_config, j0, now) ==
    IF j0.tier = "hourly"
    THEN now - j0.scheduled_at <
           TierOf(SchedulerPolicy(db_config), "hourly").interval_hours * 3600
    ELSE DayIndex(j0.scheduled_at) = DayIndex(now)

----------------------------------------------------------------------------
(* Retention of results without a tier *)

\* completed results of a database in the daily tier or without tier that are
\* still there: row in the table and blob in the container
SurvivingDailyOrTierless(table, container, database_id) ==
    { e \in table : /\ e.database_id = database_id
                    /\ e.status = "completed"
                    /\ e.tier \in {"daily", ""}
                    /\ e.blob_name \in container }

\* C12: with daily enabled and keep_count N, a retention pass prunes daily and
\* tier-less results together: at most N of them survive in total
C12_TierlessPrunedWithDaily ==
    [][cleanup_old_backups =>
        \A d \in DOMAIN databases :
          EffectiveTier(d, "daily").enabled =>
            Cardinality(SurvivingDailyOrTierless(history', blobs', d))
              <= EffectiveTier(d, "daily").keep_count]_vars


-----------------------------------------------------------------------------
(* Backup policies and the databases that use them: the policy endpoints and
   the database create and update endpoints, as concurrent HTTP requests. The
   delete handler reads the policy and the usage count, then deletes; another
   request can be served between its reads and its delete. *)

PolicyNames == {"Production Standard", "Custom", "Nightly"}
PolicyIds == {DefaultPolicyId, "custom", "nightly"}

\* create_backup_policy: re.sub(r'[^a-z0-9]+', '-', name.lower()).strip('-')
Slug(name) ==
    CASE name = "Production Standard" -> "production-standard"
      [] name = "Custom" -> "custom"
      [] name = "Nightly" -> "nightly"

Respond(op, target, status) ==
    [pending |-> api.pending, op |-> op, target |-> target, status |-> status]

\* POST /backup-policies: body with a name and the tier configurations
create_backup_policy(name, body) ==
    LET policy_id == Slug(name)
        existing == GetPolicy(policy_id)
    IN /\ IF existing.id # None
          THEN /\ api' = Respond("create_backup_policy", policy_id, 409)
               /\ UNCHANGED policies
          ELSE /\ policies' = policies @@
                     (policy_id :> Policy(policy_id, FALSE, body.hourly,
                                          body.daily, body.weekly, body.monthly,
                                          body.yearly))
               /\ api' = Respond("create_backup_policy", policy_id, 201)
       /\ UNCHANGED <<audit, inflight, clock, lastTick, databases, engines, history, blobs, queue,
                      poison, workers, sent, nextId, retention, pred>>

\* PUT /backup-policies/{policy_id}: the tiers of the body replace the stored
\* ones; is_system is kept as read
update_backup_policy(policy_id, body) ==
    LET existing == GetPolicy(policy_id)
    IN /\ IF existing.id = None
          THEN /\ api' = Respond("update_backup_policy", policy_id, 404)
               /\ UNCHANGED policies
          ELSE /\ policies' = [policies EXCEPT ![policy_id] =
                     [existing EXCEPT !.hourly = body.hourly,
                                      !.daily = body.daily]]
               /\ api' = Respond("update_backup_policy", policy_id, 200)
       /\ UNCHANGED <<audit, inflight, clock, lastTick, databases, engines, history, blobs, queue,
                      poison, workers, sent, nextId, retention, pred>>

\* StorageService.get_databases_using_policy
get_databases_using_policy(policy_id) ==
    Cardinality({d \in DOMAIN databases : databases[d].policy_id = policy_id})

\* StorageService.delete_backup_policy: its result and the table it leaves
storage_delete_backup_policy(policy_id) ==
    LET policy == GetPolicy(policy_id)
    IN IF policy.id # None /\ policy.is_system
       THEN [deleted |-> FALSE, table |-> policies]
       ELSE IF policy_id \in DOMAIN policies
            THEN [deleted |-> TRUE,
                  table |-> [p \in DOMAIN policies \ {policy_id} |-> policies[p]]]
            ELSE [deleted |-> FALSE, table |-> policies]

\* DELETE /backup-policies/{policy_id}, lines 2549-2577: the three checks
delete_backup_policy_check(policy_id) ==
    LET policy == GetPolicy(policy_id)
    IN /\ api.pending = None
       /\ IF policy.id = None
          THEN api' = Respond("delete_backup_policy", policy_id, 404)
          ELSE IF policy.is_system
          THEN api' = Respond("delete_backup_policy", policy_id, 400)
          ELSE IF get_databases_using_policy(policy_id) > 0
          THEN api' = Respond("delete_backup_policy", policy_id, 400)
          ELSE api' = [api EXCEPT !.pending = policy_id]
       /\ UNCHANGED <<audit, inflight, clock, lastTick, databases, engines, policies, history,
                      blobs, queue, poison, workers, sent, nextId, retention,
                      pred>>

\* DELETE /backup-policies/{policy_id}, lines 2579-2612: the delete and the
\* response
delete_backup_policy_commit ==
    /\ api.pending # None
    /\ LET r == storage_delete_backup_policy(api.pending)
       IN /\ policies' = r.table
          /\ api' = [pending |-> None, op |-> "delete_backup_policy",
                     target |-> api.pending,
                     status |-> IF r.deleted THEN 200 ELSE 500]
    /\ UNCHANGED <<audit, inflight, clock, lastTick, databases, engines, history, blobs, queue,
                   poison, workers, sent, nextId, retention, pred>>

\* the members of the enumerations AuditAction and AuditResourceType
AuditActionNames ==
    {"BACKUP_COMPLETED", "BACKUP_FAILED", "BACKUP_DELETED", "BACKUP_DELETED_BULK",
     "BACKUP_DELETED_RETENTION", "BACKUP_TRIGGERED", "BACKUP_DOWNLOADED",
     "DATABASE_CREATED", "DATABASE_UPDATED", "DATABASE_DELETED",
     "DATABASE_TEST_CONNECTION", "POLICY_CREATED", "POLICY_UPDATED",
     "POLICY_DELETED", "USER_CREATED", "USER_UPDATED", "USER_DELETED",
     "USER_LOGIN", "ACCESS_REQUEST_APPROVED", "ACCESS_REQUEST_REJECTED",
     "SETTINGS_UPDATED"}
AuditResourceTypeNames ==
    {"BACKUP", "DATABASE", "POLICY", "USER", "SETTINGS", "ACCESS_REQUEST"}

\* an AuditService.log that lets the failure of the table write escape
audit_log_raising(table, entry, write_ok) ==
    [raised |-> ~write_ok,
     table |-> IF write_ok THEN table \cup {entry} ELSE table]
\* AuditService.log: the entry is built and written; a failed write is logged
\* and swallowed, and the entry is returned either way
audit_log(table, entry, write_ok) ==
    [raised |-> FALSE,
     table |-> IF write_ok THEN table \cup {entry} ELSE table]

\* audit_service.log(action=AuditAction.X, resource_type=AuditResourceType.Y,
\* ...) as a handler writes it: naming a member the enumeration does not
\* have raises AttributeError before log is entered
AuditCall(action, resource_type, resource_id, write_ok) ==
    IF action \notin AuditActionNames \/ resource_type \notin AuditResourceTypeNames
    THEN [raised |-> TRUE, table |-> audit]
    ELSE audit_log(audit, [action |-> action, resource_type |-> resource_type,
                           resource_id |-> resource_id], write_ok)

\* the status a handler answers with: its own after the audit call, 500 from
\* the except clause when the call raised
AfterAudit(call, status) == IF call.raised THEN 500 ELSE status

\* body.get(key, default) of a request body
BodyGet(body, key, default) == IF key \in DOMAIN body THEN body[key] ELSE default

\* what DatabaseConfigService reads back of a stored config: from_table_entity
\* drops use_engine_credentials when the entity has no engine_id
StoredDatabase(config) ==
    [config EXCEPT !.use_engine_credentials =
        IF config.engine_id # None THEN @ ELSE FALSE]

\* POST /databases: policy_id, engine_id and use_engine_credentials of the
\* body are stored as given; the engine's credentials are copied when the
\* engine is found; the audit entry is written after the config
create_database(id, body, audit_ok) ==
    LET engine_id == BodyGet(body, "engine_id", None)
        use_engine_credentials == BodyGet(body, "use_engine_credentials", FALSE)
        engine == IF use_engine_credentials /\ engine_id # None
                  THEN GetEngine(engine_id) ELSE NoRow
        config == DatabaseConfig(id, TRUE,
                     BodyGet(body, "policy_id", DefaultPolicyId), engine_id,
                     use_engine_credentials,
                     IF engine.id # None THEN engine.username ELSE "u", None,
                     IF engine.id # None THEN engine.password ELSE "pw")
        call == AuditCall("DATABASE_CREATED", "DATABASE", id, audit_ok)
    IN /\ IF id \in DOMAIN databases
          THEN /\ api' = Respond("create_database", id, 400)
               /\ UNCHANGED <<databases, audit>>
          ELSE /\ databases' = databases @@ (id :> StoredDatabase(config))
               /\ audit' = call.table
               /\ api' = Respond("create_database", id, AfterAudit(call, 201))
       /\ UNCHANGED <<inflight, clock, lastTick, engines, policies, history,
                      blobs, queue, poison, workers, sent, nextId, retention,
                      pred>>

\* the fields of the body that update_database copies into the config
RECURSIVE SetFields(_, _, _)
SetFields(existing, body, fields) ==
    IF fields = {} THEN existing
    ELSE LET field == CHOOSE f \in fields : TRUE
         IN SetFields(IF field \in DOMAIN body
                      THEN [existing EXCEPT ![field] = body[field]]
                      ELSE existing, body, fields \ {field})

\* PUT /databases/{database_id}: the body's fields replace the stored ones,
\* then the engine's credentials are copied when the engine has a username;
\* the audit entry is written after the config
update_database(database_id, body, audit_ok) ==
    LET existing == GetDatabase(database_id)
        changed == SetFields(existing, body,
                             {"policy_id", "engine_id", "use_engine_credentials"})
        engine == IF changed.use_engine_credentials /\ changed.engine_id # None
                  THEN GetEngine(changed.engine_id) ELSE NoRow
        call == AuditCall("DATABASE_UPDATED", "DATABASE", database_id, audit_ok)
    IN /\ IF existing.id = None
          THEN /\ api' = Respond("update_database", database_id, 404)
               /\ UNCHANGED <<databases, audit>>
          ELSE /\ databases' = [databases EXCEPT ![database_id] =
                     StoredDatabase(
                       IF engine.id # None /\ engine.username # None
                       THEN [changed EXCEPT !.username = engine.username,
                                            !.password = engine.password]
                       ELSE changed)]
               /\ audit' = call.table
               /\ api' = Respond("update_database", database_id,
                                 AfterAudit(call, 200))
       /\ UNCHANGED <<inflight, clock, lastTick, engines, policies, history,
                      blobs, queue, poison, workers, sent, nextId, retention,
                      pred>>

\* request bodies of the policy endpoints
PolicyBodies == CustomPolicies

InitPolicy ==
    /\ clock = 0
    /\ lastTick = NoTime
    /\ policies = (DefaultPolicyId :> ProductionStandard)
                  @@ ("custom" :> CHOOSE p \in CustomPolicies : TRUE)
    /\ engines = ("e1" :> [id |-> "e1", policy_id |-> None, username |-> "eu",
                           password |-> "epw"])
    /\ databases = ("d1" :> DatabaseConfig("d1", TRUE, DefaultPolicyId, None,
                                           FALSE, "u1", None, "pw1"))
    /\ history = {}
    /\ blobs = {}
    /\ queue = {}
    /\ poison = {}
    /\ workers = [w \in Workers |-> Idle]
    /\ sent = {}
    /\ nextId = 1
    /\ retention = NoPass
    /\ pred = NoRow
    /\ api = NoRequest
    /\ audit = {}
    /\ inflight = {}

NextPolicy ==
    \/ \E name \in PolicyNames, body \in PolicyBodies :
         create_backup_policy(name, body)
    \/ \E policy_id \in PolicyIds, body \in PolicyBodies :
         update_backup_policy(policy_id, body)
    \/ \E policy_id \in PolicyIds : delete_backup_policy_check(policy_id)
    \/ delete_backup_policy_commit
    \* the audit table is out of reach here, which AuditService.log tolerates:
    \* the audit trail plays no part in what the policy endpoints decide
    \/ \E i \in 1..Len(DbIds), policy_id \in PolicyIds :
         create_database(DbIds[i], [policy_id |-> policy_id], FALSE)
    \/ \E i \in 1..Len(DbIds), policy_id \in PolicyIds :
         update_database(DbIds[i], [policy_id |-> policy_id], FALSE)

SpecPolicy == InitPolicy /\ [][NextPolicy]_vars

\* C13: a delete request for a system policy is rejected and leaves the policy
\* store as it was, and no request of any kind removes a system policy or
\* clears its is_system mark
C13_SystemPolicyKept ==
    [][/\ \A p \in DOMAIN policies :
            policies[p].is_system =>
              /\ p \in DOMAIN policies'
              /\ policies'[p].is_system
       /\ (/\ api' # api
           /\ api'.op = "delete_backup_policy"
           /\ api'.status # 0
           /\ api'.target \in DOMAIN policies
           /\ policies[api'.target].is_system)
          => (api'.status # 200 /\ policies' = policies)]_vars

\* a delete of the system policy was answered with a rejection when no database
\* used it any more, after policies were created and updated
C13_Witness ==
    /\ api.op = "delete_backup_policy"
    /\ api.target = DefaultPolicyId
    /\ api.status = 400
    /\ DefaultPolicyId \in DOMAIN policies
    /\ policies[DefaultPolicyId].is_system
    /\ policies[DefaultPolicyId] # ProductionStandard
    /\ "nightly" \in DOMAIN policies
    /\ get_databases_using_policy(DefaultPolicyId) = 0

\* C14: no step removes a policy that a database references
C14_UsedPolicyNotRemoved ==
    [][\A p \in DOMAIN policies \ DOMAIN policies' :
          \A d \in DOMAIN databases : databases[d].policy_id # p]_vars


-----------------------------------------------------------------------------
(* History listings: get_backup_history and get_backup_history_paged applied
   to tables whose rows span two days *)

\* get_backup_history_paged: filter, sort all matches newest first, slice
get_backup_history_paged(table, page_size, page, database_id, status) ==
    LET entities == { e \in table :
                        /\ database_id = None \/ e.database_id = database_id
                        /\ status = None \/ e.status = status }
        all_results == { from_table_entity(e) : e \in entities }
        sorted == [ i \in 1..Cardinality(all_results) |->
                      CHOOSE r \in all_results :
                        Cardinality({ x \in all_results : SortedBefore(x, r) })
                          = i - 1 ]
        start_idx == (page - 1) * page_size
        end_idx == start_idx + page_size
    IN [ i \in 1..(IF Len(sorted) <= start_idx THEN 0
                   ELSE IF Len(sorted) < end_idx THEN Len(sorted) - start_idx
                   ELSE page_size) |-> sorted[start_idx + i] ]

ListIds == {1, 2, 3}
ListDays == {0, 1}
ListLimits == {1, 2}
ListPages == {1, 2}
ListFilters == {None, "d1"}
ListStatuses == {None, "completed"}

\* a finished result of an earlier run, created at hour i of the given day
ListResult(i, database_id, day, ok) ==
    LET job == [id |-> i, database_id |-> database_id, triggered_by |-> "manual",
                tier |-> None]
        r == mark_started(BackupResult(ResultId(i, 1), job,
                                       day * DaySeconds + i * 3600),
                          day * DaySeconds + i * 3600)
    IN IF ok THEN mark_completed(r, BlobName(job, r.created_at), DumpSize,
                              r.created_at + 60)
       ELSE mark_failed(r, PipelineError, r.created_at + 60)

InitList ==
    /\ clock = 2 * DaySeconds
    /\ lastTick = NoTime
    /\ Seeded(CHOOSE p \in CustomPolicies : TRUE, TRUE)
    /\ \E ids \in SUBSET ListIds :
         \E day \in [ids -> ListDays], db \in [ids -> {"d1", "d2"}],
            ok \in [ids -> BOOLEAN] :
           history = { to_table_entity(ListResult(i, db[i], day[i], ok[i])) :
                         i \in ids }
    /\ blobs = {}
    /\ queue = {}
    /\ poison = {}
    /\ workers = [w \in Workers |-> Idle]
    /\ sent = {}
    /\ nextId = 1
    /\ retention = NoPass
    /\ pred = NoRow
    /\ api = NoRequest
    /\ audit = {}
    /\ inflight = {}

\* a caller of get_backup_history (the scheduler, the health checks, the
\* statistics), with a database filter and a limit
ListHistory(database_id, limit) ==
    /\ pred = NoRow
    /\ pred' = [id |-> "listing", database_id |-> database_id, status |-> None,
                offset |-> 0, paged |-> FALSE,
                results |-> get_backup_history(history, database_id, limit)]
    /\ UNCHANGED <<audit, inflight, clock, lastTick, databases, engines, policies, history, blobs,
                   queue, poison, workers, sent, nextId, retention, api>>

\* GET /backups: list_backups calls get_backup_history_paged
ListHistoryPaged(page_size, page, database_id, status) ==
    /\ pred = NoRow
    /\ pred' = [id |-> "listing", database_id |-> database_id, status |-> status,
                offset |-> (page - 1) * page_size, paged |-> TRUE,
                results |-> get_backup_history_paged(history, page_size, page,
                                                     database_id, status)]
    /\ UNCHANGED <<audit, inflight, clock, lastTick, databases, engines, policies, history, blobs,
                   queue, poison, workers, sent, nextId, retention, api>>

NextList ==
    \/ \E database_id \in ListFilters, limit \in ListLimits :
         ListHistory(database_id, limit)
    \/ \E page_size \in ListLimits, page \in ListPages,
          database_id \in ListFilters, status \in ListStatuses :
         ListHistoryPaged(page_size, page, database_id, status)

SpecList == InitList /\ [][NextList]_vars

\* the stored results that match the filter of the listing in pred
Matching ==
    { from_table_entity(e) : e \in
        { x \in history :
            /\ pred.database_id = None \/ x.database_id = pred.database_id
            /\ pred.status = None \/ x.status = pred.status } }

\* C15: a listing is sorted by created_at descending, and every matching record
\* newer than a returned one stands at an earlier position of the listing
C15_ListingNewestFirst ==
    pred.id = "listing" =>
      /\ \A i, j \in 1..Len(pred.results) :
           i < j => pred.results[i].created_at >= pred.results[j].created_at
      /\ \A k \in 1..Len(pred.results) :
           Cardinality({ m \in Matching :
                           m.created_at > pred.results[k].created_at })
             <= pred.offset + k - 1

\* the same for the paged listing alone
C15_PagedListingNewestFirst ==
    (pred.id = "listing" /\ pred.paged) =>
      /\ \A i, j \in 1..Len(pred.results) :
           i < j => pred.results[i].created_at >= pred.results[j].created_at
      /\ \A k \in 1..Len(pred.results) :
           Cardinality({ m \in Matching :
                           m.created_at > pred.results[k].created_at })
             <= pred.offset + k - 1


-----------------------------------------------------------------------------
(* Parallel workers with time passing, and a retention pass that runs while
   they work. The pass handles one database at a time: it reads the history of
   the database and decides what to delete, then deletes; workers can write
   between the two. *)

\* cleanup_old_backups, lines 426-489 for one database: the policy, the history
\* and the blobs to delete
CleanupRead(database_id) ==
    /\ retention.database_id = None
    /\ database_id \in DOMAIN databases
    /\ retention' = [ran |-> TRUE, deleted |-> retention.deleted,
                     database_id |-> database_id,
                     pending |-> CleanupDatabase(databases[database_id], history),
                     seen |-> { e.RowKey[2] : e \in
                                  { x \in history : x.database_id = database_id } }]
    /\ UNCHANGED <<audit, inflight, clock, lastTick, databases, engines, policies, history, blobs,
                   queue, poison, workers, sent, nextId, pred, api>>

\* cleanup_old_backups, lines 491-533 for one database: delete_backup for each
\* blob decided on
CleanupDelete ==
    /\ retention.database_id # None
    /\ blobs' = blobs \ retention.pending
    /\ retention' = [retention EXCEPT
                        !.deleted = @ \cup (retention.pending \cap blobs),
                        !.database_id = None, !.pending = {}]
    /\ UNCHANGED <<audit, inflight, clock, lastTick, databases, engines, policies, history, queue,
                   poison, workers, sent, nextId, pred, api>>

InitPar ==
    /\ clock = 0
    /\ lastTick = NoTime
    /\ Seeded(CHOOSE p \in CustomPolicies : p.hourly.enabled /\ ~p.daily.enabled,
              FALSE)
    /\ history = {}
    /\ blobs = {}
    /\ queue = {}
    /\ poison = {}
    /\ workers = [w \in Workers |-> Idle]
    /\ sent = {}
    /\ nextId = 1
    /\ retention = NoPass
    /\ api = NoRequest
    /\ audit = {}
    /\ inflight = {}
    /\ pred = NoRow

NextPar ==
    \/ dynamic_scheduler
    \/ Advance
    \/ \E d \in Range(DbIds) : trigger_backup(d)
    \/ \E w \in Workers : ProcessorBegin(w)
    \/ \E w \in Workers : ProcessorUpload(w)
    \/ \E w \in Workers : ProcessorFinish(w)

SpecPar == InitPar /\ [][NextPar]_vars

InitSweep ==
    /\ clock = 0
    /\ lastTick = NoTime
    /\ \E custom \in CustomPolicies : Seeded(custom, FALSE)
    /\ history = {}
    /\ blobs = {}
    /\ queue = {}
    /\ poison = {}
    /\ workers = [w \in Workers |-> Idle]
    /\ sent = {}
    /\ nextId = 1
    /\ retention = NoPass
    /\ api = NoRequest
    /\ audit = {}
    /\ inflight = {}
    /\ pred = NoRow

NextSweep ==
    \/ dynamic_scheduler
    \/ \E d \in Range(DbIds) : trigger_backup(d)
    \/ \E w \in Workers : ProcessorBegin(w)
    \/ \E w \in Workers : ProcessorUpload(w)
    \/ \E w \in Workers : ProcessorFinish(w)
    \/ \E d \in Range(DbIds) : CleanupRead(d)
    \/ CleanupDelete

SpecSweep == InitSweep /\ [][NextSweep]_vars

CompletedResults ==
    { from_table_entity(e) : e \in { x \in history : x.status = "completed" } }

\* C16: of two completed results of one database, the one completed earlier
\* was not created later than the other (clock values are whole seconds, so
\* two results created within one second count as created together)
C16_CompletionOrderIsCreationOrder ==
    \A r1, r2 \in CompletedResults :
      (r1.database_id = r2.database_id /\ r1.completed_at < r2.completed_at)
        => r1.created_at <= r2.created_at

\* C17: no two completed results have the same blob_name
C17_BlobNamesUnique ==
    \A r1, r2 \in CompletedResults :
      r1.id # r2.id => r1.blob_name # r2.blob_name

-----------------------------------------------------------------------------
(* Table entities: the conversions of BackupResult and BackupPolicy to and from
   their rows, applied to the values the models admit *)

\* BackupPolicy.to_table_entity: each tier stores enabled, keep_count and the
\* schedule fields it uses, an unset one as the default of its column
policy_to_table_entity(p) ==
    LET NumberOr(v, default) == IF v = NoNumber \/ v = 0 THEN default ELSE v
        TextOr(v, default) == IF v = None \/ v = "" THEN default ELSE v
    IN [PartitionKey |-> "backup_policy", RowKey |-> p.id,
        is_system |-> p.is_system,
        hourly_enabled |-> p.hourly.enabled,
        hourly_keep_count |-> p.hourly.keep_count,
        hourly_interval_hours |-> NumberOr(p.hourly.interval_hours, 1),
        daily_enabled |-> p.daily.enabled,
        daily_keep_count |-> p.daily.keep_count,
        daily_time |-> TextOr(p.daily.time, "02:00"),
        weekly_enabled |-> p.weekly.enabled,
        weekly_keep_count |-> p.weekly.keep_count,
        weekly_day_of_week |-> NumberOr(p.weekly.day_of_week, 0),
        weekly_time |-> TextOr(p.weekly.time, "03:00"),
        monthly_enabled |-> p.monthly.enabled,
        monthly_keep_count |-> p.monthly.keep_count,
        monthly_day_of_month |-> NumberOr(p.monthly.day_of_month, 1),
        monthly_time |-> TextOr(p.monthly.time, "04:00"),
        yearly_enabled |-> p.yearly.enabled,
        yearly_keep_count |-> p.yearly.keep_count,
        yearly_month |-> NumberOr(p.yearly.month, 1),
        yearly_day_of_month |-> NumberOr(p.yearly.day_of_month, 1),
        yearly_time |-> TextOr(p.yearly.time, "05:00")]

\* BackupPolicy.from_table_entity: the fields a tier does not store are not
\* passed to TierConfig and take its defaults (1, "02:00", 0, 1, 1)
policy_from_table_entity(e) ==
    Policy(e.RowKey, e.is_system,
           TierConfig(e.hourly_enabled, e.hourly_keep_count,
                      e.hourly_interval_hours, "02:00", 0, 1, 1),
           TierConfig(e.daily_enabled, e.daily_keep_count, 1, e.daily_time,
                      0, 1, 1),
           TierConfig(e.weekly_enabled, e.weekly_keep_count, 1, e.weekly_time,
                      e.weekly_day_of_week, 1, 1),
           TierConfig(e.monthly_enabled, e.monthly_keep_count, 1,
                      e.monthly_time, 0, e.monthly_day_of_month, 1),
           TierConfig(e.yearly_enabled, e.yearly_keep_count, 1, e.yearly_time,
                      0, e.yearly_day_of_month, e.yearly_month))

\* BackupResult values: a started result with each optional field unset, zero
\* or empty, and set
ResultValues ==
    LET job == [id |-> 1, database_id |-> "d1", triggered_by |-> "manual",
                tier |-> None]
        started == mark_started(BackupResult(ResultId(1, 1), job, 3600), 3600)
    IN { [started EXCEPT !.status = status, !.completed_at = 3660,
                         !.duration_seconds = duration_seconds,
                         !.file_size_bytes = file_size_bytes,
                         !.error_message = error_message,
                         !.blob_name = blob_name, !.tier = tier] :
           status \in {"completed", "failed"},
           duration_seconds \in {NoNumber, 0, 60},
           file_size_bytes \in {NoNumber, 0, 5},
           error_message \in {None, "", "boom"},
           blob_name \in {NoBlob, EmptyBlob, <<"d1", 3660>>},
           tier \in {None, "", "daily"} }

\* TierConfig values inside the bounds of its fields: the defaults, every field
\* set to another value, and every optional field unset
TierValues ==
    { Disabled,
      TierConfig(TRUE, 2, 4, "05:30", 3, 15, 6),
      TierConfig(TRUE, 1, NoNumber, None, NoNumber, NoNumber, NoNumber) }

PolicyValues ==
    { Policy("custom", FALSE, h, d, w, m, y) :
        h \in TierValues, d \in TierValues, w \in TierValues, m \in TierValues,
        y \in TierValues }

InitEntity ==
    /\ clock = 0
    /\ lastTick = NoTime
    /\ Seeded(CHOOSE p \in CustomPolicies : TRUE, FALSE)
    /\ history = {}
    /\ blobs = {}
    /\ queue = {}
    /\ poison = {}
    /\ workers = [w \in Workers |-> Idle]
    /\ sent = {}
    /\ nextId = 1
    /\ retention = NoPass
    /\ api = NoRequest
    /\ audit = {}
    /\ inflight = {}
    /\ \/ \E r \in ResultValues :
            pred = [id |-> "result", value |-> r, back |-> NoRow, done |-> FALSE]
       \/ \E p \in PolicyValues :
            pred = [id |-> "policy", value |-> p, back |-> NoRow, done |-> FALSE]

\* save_backup_result followed by a read of the row
RoundTripResult ==
    /\ pred.id = "result" /\ ~pred.done
    /\ pred' = [pred EXCEPT
                  !.back = from_table_entity(to_table_entity(pred.value)),
                  !.done = TRUE]
    /\ UNCHANGED <<audit, inflight, clock, lastTick, databases, engines, policies, history, blobs,
                   queue, poison, workers, sent, nextId, retention, api>>

\* save_backup_policy followed by get_backup_policy
RoundTripPolicy ==
    /\ pred.id = "policy" /\ ~pred.done
    /\ pred' = [pred EXCEPT
                  !.back = policy_from_table_entity(
                             policy_to_table_entity(pred.value)),
                  !.done = TRUE]
    /\ UNCHANGED <<audit, inflight, clock, lastTick, databases, engines, policies, history, blobs,
                   queue, poison, workers, sent, nextId, retention, api>>

NextEntity == RoundTripResult \/ RoundTripPolicy

SpecEntity == InitEntity /\ [][NextEntity]_vars

\* C19: a BackupResult read back from its table entity equals the result that
\* was written, also when numeric fields are zero or text fields are empty
C19_ResultRoundTrip ==
    (pred.id = "result" /\ pred.done) => pred.back = pred.value

\* C20: a BackupPolicy read back from its table entity has, in each of its five
\* tiers, every TierConfig field as it was written
C20_PolicyRoundTrip ==
    (pred.id = "policy" /\ pred.done) =>
      \A t \in TierSet : TierOf(pred.back, t) = TierOf(pred.value, t)


-----------------------------------------------------------------------------
(* Row keys of the history table as text. The entity above keeps its RowKey as
   the pair (inverted ticks, id); the table stores and orders the text that
   to_table_entity formats from it. Characters are their ASCII codes. *)

RowKeyWidth == 10   \* digits of max_ticks: 19 in the code, 10 at the model's scale

RECURSIVE Decimal(_)
\* str(n) for n >= 0
Decimal(n) == IF n < 10 THEN <<48 + n>> ELSE Decimal(n \div 10) \o <<48 + (n % 10)>>

RECURSIVE ZeroPad(_, _)
\* the "0{width}d" part of the format: zeros on the left up to the width, never
\* a truncation
ZeroPad(text, width) ==
    IF Len(text) >= width THEN text ELSE ZeroPad(<<48>> \o text, width)

\* f"{inverted_ticks}_{self.id}": the key without its zero padding
row_key_unpadded(created_at, id) ==
    Decimal(max_ticks - created_at) \o <<95>> \o Decimal(id)

\* f"{inverted_ticks:019d}_{self.id}"
row_key(created_at, id) ==
    ZeroPad(Decimal(max_ticks - created_at), RowKeyWidth) \o <<95>> \o Decimal(id)

RECURSIVE LexLess(_, _)
\* ordinal string comparison, as the table service orders RowKey
LexLess(s, t) ==
    IF Len(t) = 0 THEN FALSE
    ELSE IF Len(s) = 0 THEN TRUE
    ELSE IF Head(s) # Head(t) THEN Head(s) < Head(t)
    ELSE LexLess(Tail(s), Tail(t))

\* creation times within one day near the start of the model's time, and two
\* late ones on either side of the point where inverted ticks lose a digit
KeyTimes == {0, 1, 9, 10, 99, 100, 899, 900, 3600, 86399,
             1147483647, 1147483648}
KeyIds == {1, 2, 10}

InitKey ==
    /\ clock = 0
    /\ lastTick = NoTime
    /\ Seeded(CHOOSE p \in CustomPolicies : TRUE, FALSE)
    /\ history = {}
    /\ blobs = {}
    /\ queue = {}
    /\ poison = {}
    /\ workers = [w \in Workers |-> Idle]
    /\ sent = {}
    /\ nextId = 1
    /\ retention = NoPass
    /\ api = NoRequest
    /\ audit = {}
    /\ inflight = {}
    /\ \E ta \in KeyTimes, tb \in KeyTimes, ia \in KeyIds, ib \in KeyIds :
         pred = [id |-> "keys", a |-> [created_at |-> ta, id |-> ia],
                 b |-> [created_at |-> tb, id |-> ib],
                 key_a |-> <<>>, key_b |-> <<>>, done |-> FALSE]

\* to_table_entity of two results: their partition and row keys
FormatRowKeys ==
    /\ pred.id = "keys" /\ ~pred.done
    /\ pred' = [pred EXCEPT
                  !.key_a = row_key(pred.a.created_at, pred.a.id),
                  !.key_b = row_key(pred.b.created_at, pred.b.id),
                  !.done = TRUE]
    /\ UNCHANGED <<audit, inflight, clock, lastTick, databases, engines, policies, history, blobs,
                   queue, poison, workers, sent, nextId, retention, api>>

NextKey == FormatRowKeys

SpecKey == InitKey /\ [][NextKey]_vars

\* C21: of two results in one partition, the one created later has the
\* lexicographically smaller row key
C21_RowKeyOrder ==
    (/\ pred.id = "keys" /\ pred.done
     /\ DayIndex(pred.a.created_at) = DayIndex(pred.b.created_at)
     /\ pred.a.created_at < pred.b.created_at)
    => LexLess(pred.key_b, pred.key_a)

\* two results of one day, the later with the larger id and with inverted
\* ticks one digit shorter, and its key still sorts first
C21_Witness ==
    /\ pred.id = "keys" /\ pred.done
    /\ DayIndex(pred.a.created_at) = DayIndex(pred.b.created_at)
    /\ pred.a.created_at < pred.b.created_at
    /\ max_ticks - pred.b.created_at < 1000000000
    /\ max_ticks - pred.a.created_at >= 1000000000
    /\ pred.a.id < pred.b.id
    /\ LexLess(pred.key_b, pred.key_a)

----------------------------------------------------------------------------
(* Engines: the endpoints of the catalog that create, change and delete
   engines, with the database endpoints that refer to engines.  A request is
   a handler run of its own; between an engine handler's last read of the
   table and its write other requests may run. *)

\* the clients of the API; each has at most one request under way
Clients == {"c1", "c2"}

\* uuid4 ids of engines, in the order they are handed out
EngineIds == <<"e1", "e2", "e3">>
EngineTypes == {"mysql"}
EngineHosts == {"h1"}
\* "port" of a create body; 0 when the body has none
BodyPorts == {0, 3306, 3307}

\* Engine(...): the fields the endpoints read
Engine(id, engine_type, host, port, username, password) ==
    [id |-> id, engine_type |-> engine_type, host |-> host, port |-> port,
     username |-> username, password |-> password]

\* Engine.get_default_port
get_default_port(engine_type) ==
    CASE engine_type = "mysql" -> 3306
      [] engine_type = "postgresql" -> 5432
      [] engine_type = "sqlserver" -> 1433
      [] OTHER -> 3306

\* a count taken over the engine rows, where no row has an engine_id
get_database_count_engine_rows(engine_id) ==
    Cardinality({e \in DOMAIN engines :
                   "engine_id" \in DOMAIN engines[e]
                   /\ engines[e].engine_id = engine_id})
\* EngineService.get_database_count: the rows of partition "database" whose
\* engine_id is the engine's
get_database_count(engine_id) ==
    Cardinality({d \in DOMAIN databases : databases[d].engine_id = engine_id})

\* POST /engines up to the duplicate scan of EngineService.create: the id is
\* generated, the stored engines are read and compared
create_engine_check(engine_type, host, body_port, username, password) ==
    LET port == IF body_port # 0 THEN body_port ELSE get_default_port(engine_type)
        engine == Engine(EngineIds[nextId], engine_type, host, port, username,
                         password)
    IN /\ nextId <= Len(EngineIds)
       /\ IF \E e \in DOMAIN engines :
               /\ engines[e].host = engine.host
               /\ engines[e].port = engine.port
               /\ engines[e].engine_type = engine.engine_type
          THEN /\ api' = Respond("create_engine", engine.id, 400)
               /\ UNCHANGED <<inflight, nextId>>
          ELSE /\ Cardinality(inflight) < Cardinality(Clients)
               /\ inflight' = inflight \cup {[op |-> "create_engine",
                                              engine |-> engine]}
               /\ nextId' = nextId + 1
               /\ api' = api
       /\ UNCHANGED <<audit, clock, lastTick, databases, engines, policies,
                      history, blobs, queue, poison, workers, sent, retention,
                      pred>>

\* POST /engines from create_entity on: the engine is stored, then the audit
\* call names AuditAction.CREATE and AuditResourceType.ENGINE
create_engine_commit(r, audit_ok) ==
    LET call == AuditCall("CREATE", "ENGINE", r.engine.id, audit_ok)
    IN /\ r \in inflight
       /\ r.op = "create_engine"
       /\ engines' = engines @@ (r.engine.id :> r.engine)
       /\ audit' = call.table
       /\ api' = Respond("create_engine", r.engine.id, AfterAudit(call, 201))
       /\ inflight' = inflight \ {r}
       /\ UNCHANGED <<clock, lastTick, databases, policies, history, blobs,
                      queue, poison, workers, sent, nextId, retention, pred>>

\* PUT /engines/{engine_id} up to engine_service.update: the engine is read
\* and the body's fields are set on the copy
update_engine_read(engine_id, body) ==
    LET engine == GetEngine(engine_id)
    IN /\ IF engine.id = None
          THEN /\ api' = Respond("update_engine", engine_id, 404)
               /\ UNCHANGED inflight
          ELSE /\ Cardinality(inflight) < Cardinality(Clients)
               /\ inflight' = inflight \cup
                    {[op |-> "update_engine",
                      engine |-> SetFields(engine, body, {"username", "password"})]}
               /\ api' = api
       /\ UNCHANGED <<audit, clock, lastTick, databases, engines, policies,
                      history, blobs, queue, poison, workers, sent, nextId,
                      retention, pred>>

\* PUT /engines/{engine_id} from EngineService.update on: the copy replaces
\* the stored engine when one is still there (ValueError otherwise), then the
\* audit call names AuditAction.UPDATE and AuditResourceType.ENGINE
update_engine_write(r, audit_ok) ==
    LET call == AuditCall("UPDATE", "ENGINE", r.engine.id, audit_ok)
    IN /\ r \in inflight
       /\ r.op = "update_engine"
       /\ IF r.engine.id \notin DOMAIN engines
          THEN /\ api' = Respond("update_engine", r.engine.id, 400)
               /\ UNCHANGED <<engines, audit>>
          ELSE /\ engines' = [engines EXCEPT ![r.engine.id] = r.engine]
               /\ audit' = call.table
               /\ api' = Respond("update_engine", r.engine.id,
                                 AfterAudit(call, 200))
       /\ inflight' = inflight \ {r}
       /\ UNCHANGED <<clock, lastTick, databases, policies, history, blobs,
                      queue, poison, workers, sent, nextId, retention, pred>>

\* DELETE /engines/{engine_id} up to engine_service.delete: the engine is
\* read and its databases are counted.  With databases and the cascade flag
\* the handler goes on to db_service.get_all, a name the module does not
\* define: NameError, answered with 500 before anything is deleted
delete_engine_check(engine_id, delete_databases) ==
    LET engine == GetEngine(engine_id)
        db_count == get_database_count(engine_id)
    IN /\ IF engine.id = None
          THEN /\ api' = Respond("delete_engine", engine_id, 404)
               /\ UNCHANGED inflight
          ELSE IF db_count > 0 /\ ~delete_databases
          THEN /\ api' = Respond("delete_engine", engine_id, 400)
               /\ UNCHANGED inflight
          ELSE IF db_count > 0
          THEN /\ api' = Respond("delete_engine", engine_id, 500)
               /\ UNCHANGED inflight
          ELSE /\ Cardinality(inflight) < Cardinality(Clients)
               /\ inflight' = inflight \cup {[op |-> "delete_engine",
                                              engine |-> engine]}
               /\ api' = api
       /\ UNCHANGED <<audit, clock, lastTick, databases, engines, policies,
                      history, blobs, queue, poison, workers, sent, nextId,
                      retention, pred>>

\* DELETE /engines/{engine_id} from engine_service.delete on: the row is
\* deleted if it is there, then the audit call names AuditAction.DELETE and
\* AuditResourceType.ENGINE
delete_engine_commit(r, audit_ok) ==
    LET call == AuditCall("DELETE", "ENGINE", r.engine.id, audit_ok)
    IN /\ r \in inflight
       /\ r.op = "delete_engine"
       /\ engines' = [e \in DOMAIN engines \ {r.engine.id} |-> engines[e]]
       /\ audit' = call.table
       /\ api' = Respond("delete_engine", r.engine.id, AfterAudit(call, 200))
       /\ inflight' = inflight \ {r}
       /\ UNCHANGED <<clock, lastTick, databases, policies, history, blobs,
                      queue, poison, workers, sent, nextId, retention, pred>>

\* request bodies of the engine and database endpoints
EngineUpdateBodies == {[username |-> "eu2", password |-> "epw2"]}
DatabaseEngineBodies ==
    {[engine_id |-> e, use_engine_credentials |-> u] :
        e \in {"e1", "e2", None}, u \in BOOLEAN}

InitEngine ==
    /\ clock = 0
    /\ lastTick = NoTime
    /\ policies = (DefaultPolicyId :> ProductionStandard)
    /\ engines = ("e1" :> Engine("e1", "mysql", "h1", 3306, "eu", "epw"))
    /\ databases = ("d1" :> DatabaseConfig("d1", TRUE, DefaultPolicyId, "e1",
                                           TRUE, "eu", None, "epw"))
    /\ history = {}
    /\ blobs = {}
    /\ queue = {}
    /\ poison = {}
    /\ workers = [w \in Workers |-> Idle]
    /\ sent = {}
    /\ nextId = 2
    /\ retention = NoPass
    /\ pred = NoRow
    /\ api = NoRequest
    /\ audit = {}
    /\ inflight = {}

\* engine requests alone: create, update and delete, each in two steps
NextEngine ==
    \/ \E engine_type \in EngineTypes, host \in EngineHosts, port \in BodyPorts :
         create_engine_check(engine_type, host, port, "eu", "epw")
    \/ \E r \in inflight, audit_ok \in BOOLEAN : create_engine_commit(r, audit_ok)
    \/ \E i \in 1..Len(EngineIds), body \in EngineUpdateBodies :
         update_engine_read(EngineIds[i], body)
    \/ \E r \in inflight, audit_ok \in BOOLEAN : update_engine_write(r, audit_ok)
    \/ \E i \in 1..Len(EngineIds), delete_databases \in BOOLEAN :
         delete_engine_check(EngineIds[i], delete_databases)
    \/ \E r \in inflight, audit_ok \in BOOLEAN : delete_engine_commit(r, audit_ok)

SpecEngine == InitEngine /\ [][NextEngine]_vars

\* engine create and delete requests with the database requests that refer
\* to engines
NextCatalog ==
    \/ \E engine_type \in EngineTypes, host \in EngineHosts, port \in BodyPorts :
         create_engine_check(engine_type, host, port, "eu", "epw")
    \/ \E r \in inflight, audit_ok \in BOOLEAN : create_engine_commit(r, audit_ok)
    \/ \E i \in 1..Len(EngineIds), delete_databases \in BOOLEAN :
         delete_engine_check(EngineIds[i], delete_databases)
    \/ \E r \in inflight, audit_ok \in BOOLEAN : delete_engine_commit(r, audit_ok)
    \* the audit table is out of reach here, which AuditService.log tolerates
    \/ \E i \in 1..Len(DbIds), body \in DatabaseEngineBodies :
         create_database(DbIds[i], body, FALSE)
    \/ \E i \in 1..Len(DbIds), body \in DatabaseEngineBodies :
         update_database(DbIds[i], body, FALSE)

SpecCatalog == InitEngine /\ [][NextCatalog]_vars

\* the databases whose engine_id is the engine's
ReferencedBy(engine_id) ==
    {d \in DOMAIN databases : databases[d].engine_id = engine_id}

\* C22: a delete request for an engine that at least one database refers to,
\* made without the cascade flag, is answered with 400 and changes neither
\* the engines nor the databases, and the request goes no further
C22_DeleteRejectedWhileReferenced ==
    [][\A i \in 1..Len(EngineIds) :
         (/\ EngineIds[i] \in DOMAIN engines
          /\ ReferencedBy(EngineIds[i]) # {}
          /\ delete_engine_check(EngineIds[i], FALSE))
         => (/\ api'.op = "delete_engine"
             /\ api'.target = EngineIds[i]
             /\ api'.status = 400
             /\ UNCHANGED <<engines, databases, inflight>>)]_vars

C22_Witness ==
    /\ api.op = "delete_engine"
    /\ api.status = 400
    /\ api.target \in DOMAIN engines
    /\ ReferencedBy(api.target) # {}

\* C23: no two stored engines have the same host, port and engine_type,
\* however concurrent create and update requests interleave
C23_EngineKeysUnique ==
    \A a, b \in DOMAIN engines :
        a # b => \/ engines[a].host # engines[b].host
                 \/ engines[a].port # engines[b].port
                 \/ engines[a].engine_type # engines[b].engine_type

\* C24: every database that uses its engine's credentials names an engine
\* that is stored, whatever database create/update and engine create/delete
\* requests have run
C24_EngineCredentialsResolvable ==
    \A d \in DOMAIN databases :
        databases[d].use_engine_credentials
        => databases[d].engine_id \in DOMAIN engines

----------------------------------------------------------------------------
(* Credentials of a backup: the scheduler and the workers with engine update
   requests running beside them *)

InitCred ==
    /\ clock = 0
    /\ lastTick = NoTime
    /\ Seeded(CHOOSE p \in CustomPolicies : p.hourly.enabled /\ ~p.daily.enabled,
              TRUE)
    /\ history = {}
    /\ blobs = {}
    /\ queue = {}
    /\ poison = {}
    /\ workers = [w \in Workers |-> Idle]
    /\ sent = {}
    /\ nextId = 1
    /\ retention = NoPass
    /\ api = NoRequest
    /\ audit = {}
    /\ inflight = {}
    /\ pred = NoRow

NextCred ==
    \/ dynamic_scheduler
    \/ Advance
    \/ \E e \in DOMAIN engines, body \in EngineUpdateBodies :
         update_engine_read(e, body)
    \/ \E r \in inflight, audit_ok \in BOOLEAN : update_engine_write(r, audit_ok)
    \/ \E w \in Workers : ProcessorBegin(w)
    \/ \E w \in Workers : ProcessorUpload(w)
    \/ \E w \in Workers : ProcessorFinish(w)

SpecCred == InitCred /\ [][NextCred]_vars

\* the (username, password) pairs the engine has had at some moment: the
\* seeded pair and the pair that each update body leaves
EngineMoments ==
    {<<"eu", "epw">>} \cup
    { <<SetFields([username |-> "eu", password |-> "epw"], body,
                  {"username", "password"}).username,
        SetFields([username |-> "eu", password |-> "epw"], body,
                  {"username", "password"}).password>> :
        body \in EngineUpdateBodies }

----------------------------------------------------------------------------
(* Audit: the catalog requests with an audit table whose writes may fail *)

AuditedBodies == {[engine_id |-> "e1", use_engine_credentials |-> TRUE],
                  [engine_id |-> None, use_engine_credentials |-> FALSE]}

NextAudit ==
    \/ \E i \in 1..Len(DbIds), body \in AuditedBodies, audit_ok \in BOOLEAN :
         create_database(DbIds[i], body, audit_ok)
    \/ \E i \in 1..Len(DbIds), body \in AuditedBodies, audit_ok \in BOOLEAN :
         update_database(DbIds[i], body, audit_ok)
    \/ \E engine_type \in EngineTypes, host \in EngineHosts, port \in BodyPorts :
         create_engine_check(engine_type, host, port, "eu", "epw")
    \/ \E r \in inflight, audit_ok \in BOOLEAN : create_engine_commit(r, audit_ok)
    \/ \E delete_databases \in BOOLEAN : delete_engine_check("e1", delete_databases)
    \/ \E r \in inflight, audit_ok \in BOOLEAN : delete_engine_commit(r, audit_ok)

SpecAudit == InitEngine /\ [][NextAudit]_vars

\* C26: a request that has stored its effect and whose audit entry did not
\* get written answers as it does when the entry is written, with its
\* success status, and its effect stays in the store
C26_AuditFailureHarmless ==
    [][((engines' # engines \/ databases' # databases) /\ audit' = audit)
       => api'.status \in {200, 201}]_vars

\* the same for the database requests alone, where the audit call reaches
\* AuditService.log
C26_DatabaseAuditFailureHarmless ==
    [][(databases' # databases /\ audit' = audit)
       => api'.status \in {200, 201}]_vars

----------------------------------------------------------------------------
(* Policy resolution: the scheduler's and the retention pass's resolution of
   one database's policy, over catalogs of one database and one engine *)

\* the Engine of the data model, which also carries policy_id; the scheduler
\* and the retention pass read that field
WithPolicyId(engine, policy_id) ==
    [f \in DOMAIN engine \cup {"policy_id"} |->
        IF f = "policy_id" THEN policy_id ELSE engine[f]]

\* the database d1: as DatabaseConfig declares it, and with use_engine_policy
ResolveDatabases ==
    LET declared == { DatabaseConfig("d1", TRUE, policy_id, engine_id, FALSE,
                                     "u1", None, "pw1") :
                        policy_id \in {None, "custom", "retired"},
                        engine_id \in {None, "e1", "e2"} }
    IN declared \cup { WithEnginePolicy(c, u) : c \in declared, u \in BOOLEAN }

\* the engine e1: as Engine declares it, and with policy_id
ResolveEngines ==
    LET declared == Engine("e1", "mysql", "h1", 3306, "eu", "epw")
    IN {declared} \cup { WithPolicyId(declared, policy_id) :
                           policy_id \in {None, "custom", "retired"} }

InitResolve ==
    /\ clock = 0
    /\ lastTick = NoTime
    /\ policies = (DefaultPolicyId :> ProductionStandard)
                  @@ ("custom" :> CHOOSE p \in CustomPolicies : TRUE)
    /\ \E engine \in ResolveEngines : engines = ("e1" :> engine)
    /\ \E db_config \in ResolveDatabases : databases = ("d1" :> db_config)
    /\ history = {}
    /\ blobs = {}
    /\ queue = {}
    /\ poison = {}
    /\ workers = [w \in Workers |-> Idle]
    /\ sent = {}
    /\ nextId = 1
    /\ retention = NoPass
    /\ api = NoRequest
    /\ audit = {}
    /\ inflight = {}
    /\ pred = [id |-> "resolve", done |-> FALSE, scheduler |-> NoRow,
               cleanup |-> NoRow]

\* one tick and one pass resolve the policy of d1
ResolvePolicies ==
    /\ pred.id = "resolve"
    /\ ~pred.done
    /\ pred' = [pred EXCEPT !.done = TRUE,
                            !.scheduler = SchedulerPolicy(databases["d1"]),
                            !.cleanup = CleanupPolicy(databases["d1"])]
    /\ UNCHANGED <<audit, inflight, api, clock, lastTick, databases, engines,
                   policies, history, blobs, queue, poison, workers, sent,
                   nextId, retention>>

NextResolve == ResolvePolicies

SpecResolve == InitResolve /\ [][NextResolve]_vars

\* the effective policy of a database as the data model defines it
EffectivePolicy(db) ==
    LET engine == IF HasAttr(db, "use_engine_policy") /\ db.use_engine_policy
                     /\ db.engine_id # None
                  THEN GetEngine(db.engine_id) ELSE NoRow
        policy_id == IF engine.id # None /\ HasAttr(engine, "policy_id")
                        /\ engine.policy_id # None
                     THEN engine.policy_id
                     ELSE IF db.policy_id # None THEN db.policy_id
                     ELSE DefaultPolicyId
    IN IF policy_id \in DOMAIN policies THEN policies[policy_id]
       ELSE policies[DefaultPolicyId]

\* C27: for every catalog, the scheduler tick and the retention pass resolve
\* the same policy for the database, and it is the effective policy: the
\* engine's when use_engine_policy is set and the engine has a policy_id,
\* otherwise the database's, otherwise (or when the policy named does not
\* exist) production-standard
C27_SameEffectivePolicy ==
    (pred.id = "resolve" /\ pred.done)
    => /\ pred.scheduler = pred.cleanup
       /\ pred.scheduler = EffectivePolicy(databases["d1"])

\* the same over the catalogs whose database carries use_engine_policy and
\* whose engine carries policy_id
C27_SameEffectivePolicyWithFields ==
    (/\ pred.id = "resolve" /\ pred.done
     /\ HasAttr(databases["d1"], "use_engine_policy")
     /\ HasAttr(engines["e1"], "policy_id"))
    => /\ pred.scheduler = pred.cleanup
       /\ pred.scheduler = EffectivePolicy(databases["d1"])

----------------------------------------------------------------------------
(* Last backup of a tier: get_last_backup_for_tier over histories of one
   database, from empty to longer than the scan of 100 results *)

\* a result of d1 created at second t, left in the given status
LastResult(i, tier, t, status) ==
    LET job == [id |-> i, database_id |-> "d1", triggered_by |-> "scheduler",
                tier |-> tier]
        r == mark_started(BackupResult(ResultId(i, 1), job, t), t)
    IN IF status = "completed"
       THEN mark_completed(r, BlobName(job, t), DumpSize, t + 1)
       ELSE IF status = "failed" THEN mark_failed(r, PipelineError, t + 1)
       ELSE r

\* how many results the first day holds
LastFillers == {0, 1, 99, 100}
LastTiers == {"hourly", "daily", None}
LastStatuses == {"completed", "failed", "in_progress"}

\* the results of day 0, two seconds apart, and one result of day 1
InitLast ==
    /\ clock = 2 * DaySeconds
    /\ lastTick = NoTime
    /\ Seeded(CHOOSE p \in CustomPolicies : TRUE, TRUE)
    /\ \E n \in LastFillers, old_tier \in LastTiers, new_tier \in LastTiers,
          old_status \in {"completed", "failed"}, new_status \in LastStatuses :
         history = { to_table_entity(LastResult(i, old_tier, 2 * i, old_status)) :
                       i \in 1..n }
                   \cup { to_table_entity(LastResult(n + 1, new_tier, DaySeconds,
                                                     new_status)) }
    /\ blobs = {}
    /\ queue = {}
    /\ poison = {}
    /\ workers = [w \in Workers |-> Idle]
    /\ sent = {}
    /\ nextId = 1
    /\ retention = NoPass
    /\ pred = NoRow
    /\ api = NoRequest
    /\ audit = {}
    /\ inflight = {}

\* the scheduler asks for the last backup of d1 in one tier
LastBackup(tier) ==
    /\ pred = NoRow
    /\ pred' = [id |-> "last", tier |-> tier,
                last_backup |-> get_last_backup_for_tier("d1", tier)]
    /\ UNCHANGED <<audit, inflight, clock, lastTick, databases, engines,
                   policies, history, blobs, queue, poison, workers, sent,
                   nextId, retention, api>>

NextLast == \E tier \in {"hourly", "daily"} : LastBackup(tier)

SpecLast == InitLast /\ [][NextLast]_vars

\* the completed results of a database that count for a tier
CompletedOfTier(database_id, tier) ==
    { r \in { from_table_entity(e) : e \in history } :
        /\ r.database_id = database_id
        /\ r.status = "completed"
        /\ (r.tier = tier \/ (r.tier = None /\ tier = "daily")) }

\* C28: the lookup returns the completion time of the most recent completed
\* result of the database in the tier, a result without a tier counting as
\* daily, and returns none only when there is no such result
C28_LastBackupIsNewest ==
    pred.id = "last"
    => LET matching == CompletedOfTier("d1", pred.tier)
       IN IF matching = {} THEN pred.last_backup = NoTime
          ELSE /\ pred.last_backup # NoTime
               /\ \A r \in matching : r.completed_at <= pred.last_backup

----------------------------------------------------------------------------
(* The calendar tiers of should_run_tier, under SpecPred *)

\* day of week with Sunday = 0, month and day of month of the input days:
\* day 0 is Sunday 1 January, day 1 Monday 2 January, day 31 Wednesday
\* 1 February
SundayZeroDay == (pred.now \div 86400) % 7
MonthOfNow == IF pred.now \div 86400 = 31 THEN 2 ELSE 1
DayOfNow == IF pred.now \div 86400 = 1 THEN 2 ELSE 1

\* the daily rule with the tier's own time
DailyLogic == pred.now >= ScheduledToday /\ pred.last < ScheduledToday

----------------------------------------------------------------------------
(* Retention over a history whose backups ran side by side: results of d1
   created an hour apart whose dumps were uploaded within two seconds of
   each other *)

PruneUploads == {3 * 3600 + 5, 3 * 3600 + 6}

\* the row backup_processor leaves for a run that began at SeedTime(i) and
\* uploaded at the given second
PruneResult(i, tier, uploaded) ==
    LET job == [BackupJob("d1", "u1", None, "scheduler", tier, NoTime)
                  EXCEPT !.id = i]
        started == mark_started(BackupResult(ResultId(i, 1), job, SeedTime(i)),
                                SeedTime(i))
    IN mark_completed(started, BlobName(job, uploaded), DumpSize, uploaded)

InitPrune ==
    /\ clock = 4 * 3600
    /\ lastTick = 4 * 3600
    /\ \E custom \in RetentionPolicies : Seeded(custom, TRUE)
    /\ \E tiers \in [SeedIds -> {"hourly", "daily"}],
          uploaded \in [SeedIds -> PruneUploads] :
         LET results == { PruneResult(i, tiers[i], uploaded[i]) : i \in SeedIds }
         IN /\ history = { to_table_entity(r) : r \in results }
            /\ blobs = { r.blob_name : r \in results }
    /\ queue = {}
    /\ poison = {}
    /\ workers = [w \in Workers |-> Idle]
    /\ sent = {}
    /\ nextId = 4
    /\ retention = NoPass
    /\ api = NoRequest
    /\ audit = {}
    /\ inflight = {}
    /\ pred = NoRow

NextPrune ==
    \/ cleanup_old_backups
    \/ \E blob_name \in blobs : delete_backup_file(blob_name)

SpecPrune == InitPrune /\ [][NextPrune]_vars

----------------------------------------------------------------------------
(* Retention when delete_backup raises: delete_blob errors other than
   ResourceNotFoundError leave delete_backup, and the pass catches them once
   per database *)

\* blob names of tier_backups[keep_count:], in the order the loop visits them
ExcessNames(tier_backups, keep_count) ==
    LET excess == SelectSeq(Excess(tier_backups, keep_count),
                            LAMBDA b : b.blob_name # NoBlob)
    IN [ i \in 1..Len(excess) |-> excess[i].blob_name ]

RECURSIVE TierDeleteOrder(_, _, _)
\* lines 500-518: the enabled tiers in tiers_config order, from tier i on
TierDeleteOrder(policy, all_backups, i) ==
    IF i > Len(Tiers) THEN <<>>
    ELSE (IF TierOf(policy, Tiers[i]).enabled
          THEN ExcessNames(Bucket(all_backups, Tiers[i]),
                           TierOf(policy, Tiers[i]).keep_count)
          ELSE <<>>)
         \o TierDeleteOrder(policy, all_backups, i + 1)

\* the delete_backup calls of one database in the order the pass makes them:
\* the tiers, then the backups without tier (lines 520-533)
DeleteOrder(db_config, table) ==
    LET policy == CleanupPolicy(db_config)
        all_backups == get_backup_history(table, db_config.id, CleanupScanLimit)
    IN IF policy.id = None \/ Len(all_backups) = 0 THEN <<>>
       ELSE TierDeleteOrder(policy, all_backups, 1)
            \o (IF policy.daily.enabled
                THEN ExcessNames(Bucket(all_backups, "unknown"),
                                 policy.daily.keep_count)
                ELSE <<>>)

\* the deletes of one database that happen: the first delete_backup that
\* raises ends the try block of the database (line 535)
DeletesOfDatabase(order, failing) ==
    { order[i] : i \in { k \in 1..Len(order) :
                           \A j \in 1..k : order[j] \notin failing } }

\* one run of cleanup_old_backups in which delete_blob raises for the blobs
\* in failing; retention.pending keeps the blobs whose delete raised
cleanup_old_backups_with_errors(failing) ==
    /\ LET dbs == get_all(FALSE)
           deletes == UNION { DeletesOfDatabase(DeleteOrder(dbs[i], history),
                                                failing) : i \in 1..Len(dbs) }
       IN /\ blobs' = blobs \ deletes
          /\ retention' = [NoPass EXCEPT !.ran = TRUE,
                                          !.deleted = deletes \cap blobs,
                                          !.pending = failing]
    /\ UNCHANGED <<audit, inflight, api, clock, lastTick, databases, engines, policies, history, queue,
                   poison, workers, sent, nextId, pred>>

\* a completed result of a database, one per hour
FaultResult(database_id, i, tier) ==
    LET job == [BackupJob(database_id, "u1", None, "scheduler", tier, NoTime)
                  EXCEPT !.id = i]
        started == mark_started(BackupResult(ResultId(i, 1), job, SeedTime(i)),
                                SeedTime(i))
    IN mark_completed(started, BlobName(job, SeedTime(i)), DumpSize, SeedTime(i))

FaultTiers == {"hourly", "daily"}

InitFault ==
    /\ clock = 7 * 3600
    /\ lastTick = 7 * 3600
    /\ \E custom \in RetentionPolicies :
         policies = (DefaultPolicyId :> ProductionStandard) @@ ("custom" :> custom)
    /\ engines = << >>
    /\ databases =
         [ d \in Range(DbIds) |->
             WithEnginePolicy(DatabaseConfig(d, TRUE, "custom", None, FALSE, "u1",
                                             None, "pw1"), FALSE) ]
    /\ \E tiers \in [SeedIds -> FaultTiers] :
         LET results == { FaultResult("d1", i, tiers[i]) : i \in SeedIds }
                        \cup { FaultResult("d2", i + 3, "hourly") : i \in SeedIds }
         IN /\ history = { to_table_entity(r) : r \in results }
            /\ blobs = { r.blob_name : r \in results }
    /\ queue = {}
    /\ poison = {}
    /\ workers = [w \in Workers |-> Idle]
    /\ sent = {}
    /\ nextId = 7
    /\ retention = NoPass
    /\ api = NoRequest
    /\ audit = {}
    /\ inflight = {}
    /\ pred = NoRow

NextFault ==
    \E failing \in SUBSET blobs :
       /\ Cardinality(failing) <= 1
       /\ cleanup_old_backups_with_errors(failing)

SpecFault == InitFault /\ [][NextFault]_vars

\* every blob a pass without errors would delete
AllExcess ==
    UNION { Range(DeleteOrder(databases[d], history)) : d \in DOMAIN databases }

C31_OtherDatabasesPruned ==
    [][\A failing \in SUBSET blobs :
         (Cardinality(failing) = 1 /\ cleanup_old_backups_with_errors(failing))
         => \A d \in DOMAIN databases :
              Range(DeleteOrder(databases[d], history)) \cap failing = {}
              => blobs' \cap Range(DeleteOrder(databases[d], history)) = {}]_vars

----------------------------------------------------------------------------
(* The rows one BackupResult leaves in the history table *)

RowsOfResult(id) == { e \in history : e.RowKey[2] = id }

\* C32: the writes of one BackupResult id carry one created_at and so one
\* (PartitionKey, RowKey); the history table holds at most one row per id
C32_OneRowPerResult ==
    \A e1 \in history : \A e2 \in history :
       e1.RowKey[2] = e2.RowKey[2] => e1 = e2

\* the final save replaced the row the first save wrote at an earlier time
C32_Witness ==
    \E e \in history :
       /\ e.status = "completed"
       /\ e.completed_at > e.created_at
       /\ RowsOfResult(e.RowKey[2]) = {e}

\* the status the history table held for the id of a row before a write
PriorStatuses(e) == { p.status : p \in RowsOfResult(e.RowKey[2]) }

\* C33: the statuses persisted for one BackupResult id are pending, then
\* in_progress, then one of completed or failed, and nothing is persisted
\* for the id after a terminal status
C33_StatusSequence ==
    [][\A e \in history' \ history :
         IF PriorStatuses(e) = {} THEN e.status = "pending"
         ELSE \/ PriorStatuses(e) = {"pending"} /\ e.status = "in_progress"
              \/ PriorStatuses(e) = {"in_progress"}
                   /\ e.status \in {"completed", "failed"}]_vars

\* the sequence as the worker writes it: in_progress first, then one of
\* completed or failed, nothing after
C33_StartedThenTerminal ==
    [][\A e \in history' \ history :
         IF PriorStatuses(e) = {} THEN e.status = "in_progress"
         ELSE /\ PriorStatuses(e) = {"in_progress"}
              /\ e.status \in {"completed", "failed"}]_vars

\* C34: a result is persisted as completed only after its upload returned:
\* the row written carries a blob_name, and the blob of that name is in the
\* container when the row is written
C34_CompletedAfterUpload ==
    [][\A e \in history' \ history :
         e.status = "completed"
         => /\ e.blob_name # EmptyBlob
            /\ e.blob_name \in blobs]_vars

\* a completed row was written and names a blob of the container
C34_Witness ==
    \E e \in history :
       /\ e.status = "completed"
       /\ e.blob_name # EmptyBlob
       /\ e.blob_name \in blobs
       /\ \A w \in Workers : workers[w].pc = "idle"

\* a delivery: the message is in the queue again with its dequeue count
\* raised by one
Delivered(m) ==
    \E n \in queue' : n.id = m.id /\ n.dequeue_count = m.dequeue_count + 1

----------------------------------------------------------------------------
(* Messages on the queue that are not a BackupJob *)

\* a body on which BackupJob.from_queue_message raises
MalformedBody == [valid |-> FALSE, job |-> NoRow]
MalformedIds == {90, 91}

\* parse failure that is raised instead of logged: the host does not complete
\* the message
ProcessorRejectRaising(w) ==
    /\ workers[w].pc = "idle"
    /\ \E m \in queue :
         /\ m.holder = None
         /\ m.dequeue_count < maxDequeueCount
         /\ ~m.body.valid
         /\ queue' = (queue \ {m}) \cup
                     {[m EXCEPT !.dequeue_count = m.dequeue_count + 1]}
    /\ UNCHANGED <<audit, inflight, api, clock, lastTick, databases, engines, policies, history, blobs,
                   poison, workers, sent, nextId, retention, pred>>

\* lines 65-71: the body does not parse, the error is logged and the function
\* returns; the host deletes the message
ProcessorReject(w) ==
    /\ workers[w].pc = "idle"
    /\ \E m \in queue :
         /\ m.holder = None
         /\ m.dequeue_count < maxDequeueCount
         /\ ~m.body.valid
         /\ queue' = queue \ {m}
    /\ UNCHANGED <<audit, inflight, api, clock, lastTick, databases, engines, policies, history, blobs,
                   poison, workers, sent, nextId, retention, pred>>

InitParse ==
    /\ clock = 0
    /\ lastTick = NoTime
    /\ Seeded(CHOOSE p \in CustomPolicies : p.hourly.enabled /\ ~p.daily.enabled, TRUE)
    /\ history = {}
    /\ blobs = {}
    /\ queue = { [id |-> i, body |-> MalformedBody, dequeue_count |-> 0,
                  holder |-> None] : i \in MalformedIds }
    /\ poison = {}
    /\ workers = [w \in Workers |-> Idle]
    /\ sent = {}
    /\ nextId = 1
    /\ retention = NoPass
    /\ api = NoRequest
    /\ audit = {}
    /\ inflight = {}
    /\ pred = NoRow

NextParse ==
    \/ dynamic_scheduler
    \/ \E d \in Range(DbIds) : trigger_backup(d)
    \/ \E w \in Workers : ProcessorBegin(w)
    \/ \E w \in Workers : ProcessorReject(w)
    \/ \E w \in Workers : ProcessorUpload(w)
    \/ \E w \in Workers : ProcessorFinish(w)
    \/ \E w \in Workers : ProcessorFail(w)
    \/ \E w \in Workers : HostCrash(w)
    \/ HostPoison

SpecParse == InitParse /\ [][NextParse]_vars

\* C36: a message that does not parse as a BackupJob is consumed without a
\* write to the history table or the container, and is in neither the queue
\* nor the poison queue afterwards; until then no attempt is counted on it
C36_MalformedConsumed ==
    [][/\ \A m \in queue :
            (~m.body.valid /\ m \notin queue')
            => /\ history' = history
               /\ blobs' = blobs
               /\ \A n \in queue' \cup poison' : n.id # m.id
       /\ \A n \in queue' \cup poison' :
            ~n.body.valid => n.dequeue_count = 0 /\ n.holder = None
       /\ \A e \in history' : e.job_id \notin MalformedIds]_vars

\* both malformed messages are gone while backups were made
C36_Witness ==
    /\ \A m \in queue \cup poison : m.id \notin MalformedIds
    /\ \A i \in MalformedIds : \A e \in history : e.job_id # i
    /\ \E e \in history : e.status = "completed"

----------------------------------------------------------------------------
(* DELETE /databases/{id} next to the workers *)

DeleteAllScanLimit == 10000   \* limit passed by delete_all_backups_for_database

\* StorageService.delete_all_backups_for_database: for every result the
\* history lists for the database, its blob when it names one, and its row
delete_all_backups_for_database(table, container, database_id) ==
    LET backups == Range(get_backup_history(table, database_id, DeleteAllScanLimit))
        names == { b.blob_name : b \in { x \in backups : x.blob_name # NoBlob } }
        ids == { b.id : b \in backups }
    IN [container |-> container \ names,
        table |-> { e \in table : ~(e.database_id = database_id
                                    /\ e.RowKey[2] \in ids) }]

\* DELETE /databases/{database_id}?delete_backups=...
delete_database(database_id, delete_backups, audit_ok) ==
    LET swept == delete_all_backups_for_database(history, blobs, database_id)
        call == AuditCall("DATABASE_DELETED", "DATABASE", database_id, audit_ok)
    IN /\ IF database_id \notin DOMAIN databases
          THEN /\ api' = Respond("delete_database", database_id, 404)
               /\ UNCHANGED <<databases, audit, history, blobs>>
          ELSE /\ history' = IF delete_backups THEN swept.table ELSE history
               /\ blobs' = IF delete_backups THEN swept.container ELSE blobs
               /\ databases' = [ d \in DOMAIN databases \ {database_id} |->
                                   databases[d] ]
               /\ audit' = call.table
               /\ api' = Respond("delete_database", database_id,
                                 AfterAudit(call, 200))
       /\ UNCHANGED <<inflight, clock, lastTick, engines, policies, queue,
                      poison, workers, sent, nextId, retention, pred>>

NextDrop ==
    \/ dynamic_scheduler
    \/ \E d \in Range(DbIds) : trigger_backup(d)
    \/ \E w \in Workers : ProcessorBegin(w)
    \/ \E w \in Workers : ProcessorUpload(w)
    \/ \E w \in Workers : ProcessorFinish(w)
    \/ \E w \in Workers : ProcessorFail(w)
    \/ \E d \in Range(DbIds), delete_backups \in BOOLEAN :
          delete_database(d, delete_backups, FALSE)

SpecDrop == InitWorker /\ [][NextDrop]_vars

BackupsOf(table, container, database_id) ==
    { e \in table : e.database_id = database_id }
    \cup { b \in container : b[1] = database_id }

\* a job of the database is on the queue or with a worker
JobPending(database_id) ==
    \/ \E m \in queue : m.body.valid /\ m.body.job.database_id = database_id
    \/ \E w \in Workers : /\ workers[w].pc # "idle"
                          /\ workers[w].job.database_id = database_id

\* C37: when a delete of a database with delete_backups=true completes, the
\* history table holds no result and the container no blob of that
\* database, whether or not a job of it was queued or in progress
C37_DeleteLeavesNoBackups ==
    [][\A d \in DOMAIN databases :
         delete_database(d, TRUE, FALSE)
         => BackupsOf(history', blobs', d) = {}]_vars

\* with no job of the database queued or in progress, the delete leaves
\* nothing of it
C37_QuietDeleteLeavesNoBackups ==
    [][\A d \in DOMAIN databases :
         (~JobPending(d) /\ delete_database(d, TRUE, FALSE))
         => BackupsOf(history', blobs', d) = {}]_vars

----------------------------------------------------------------------------
(* Retention passes in succession *)

NextTwice == cleanup_old_backups

SpecTwice == InitRet /\ [][NextTwice]_vars

\* the blobs a retention pass started in this state would remove
PassDeletes ==
    LET dbs == get_all(FALSE)
    IN blobs \cap UNION { CleanupDatabase(dbs[i], history) : i \in 1..Len(dbs) }

\* C38: a retention pass leaves a state in which another pass changes
\* nothing: the history table is as before the first pass and no blob is
\* left that a second pass would remove
C38_PassIdempotent ==
    [][cleanup_old_backups =>
         /\ history' = history
         /\ PassDeletes' = {}
         /\ retention.ran => blobs' = blobs]_vars

\* a second pass has run after a pass that removed blobs, and removed none
C38_Witness ==
    /\ retention.ran
    /\ retention.deleted = {}
    /\ \E e \in history : e.status = "completed" /\ e.blob_name \notin blobs
    /\ blobs # {}

----------------------------------------------------------------------------
(* Retention after databases were removed from the catalog *)

NextOrphan ==
    \/ cleanup_old_backups
    \/ \E d \in Range(DbIds), delete_backups \in BOOLEAN :
          delete_database(d, delete_backups, FALSE)

SpecOrphan == InitFault /\ [][NextOrphan]_vars

\* C39: a retention pass changes no blob and no history row of a database
\* that is not in the catalog when the pass runs
C39_PassSparesRemovedDatabases ==
    [][cleanup_old_backups =>
         \A d \in Range(DbIds) \ DOMAIN databases :
            BackupsOf(history', blobs', d) = BackupsOf(history, blobs, d)]_vars

\* d1 was removed with its three hourly backups kept, all in excess of the
\* policy it had, and a pass has since removed blobs of d2
C39_Witness ==
    /\ "d1" \notin DOMAIN databases
    /\ policies["custom"].hourly.keep_count = 0
    /\ Cardinality({ e \in history : e.database_id = "d1" /\ e.tier = "hourly"
                                     /\ e.blob_name \in blobs }) = 3
    /\ retention.ran
    /\ \E b \in retention.deleted : b[1] = "d2"

====
